---------------------------- MODULE Spec2Model ----------------------------
(***************************************************************************)
(* Treblle WASM middleware for Traefik: the guest handler, the payload     *)
(* redactor, the host-call wrappers and the WASI HTTPS client.             *)
(*                                                                         *)
(* Text is modelled as tuples of one-character strings.  Byte strings that *)
(* cross the host boundary are a literal head followed by a run of `pad'   *)
(* space bytes, which lets a value be longer than the 2048-byte read       *)
(* buffer without enumerating its bytes.                                   *)
(***************************************************************************)
EXTENDS Integers, Sequences, FiniteSets, TLC

VARIABLES
    guest,          \* "running" | "trapped": a panic traps the WASM instance
    CONFIG,         \* lib.rs CONFIG: Lazy<Config>, "uninit" until first deref
    BLACKLIST,      \* lib.rs BLACKLIST: Lazy<RouteBlacklist>
    HTTP_CLIENT,    \* lib.rs HTTP_CLIENT: Lazy<WasiHttpClient>
    CLIENT_CONFIG,  \* wasi_http_client.rs CLIENT_CONFIG: Mutex<Option<..>>
    LOG_LEVEL,      \* logger.rs LOG_LEVEL: AtomicI32
    hostConfig,     \* the configuration blob the host delivers
    txn,            \* the transaction the host is currently proxying
    hostBody,       \* the bodies the host holds, by kind
    features,       \* calls of enable_features received by the host
    now,            \* clock, in seconds
    ret,            \* outcome of the last entry-point invocation
    hostCalls,      \* host functions called by the last invocation, in order
    hostLog,        \* lines the host log function received in the last invocation
    posts,          \* POSTs attempted by the last invocation, and when
    sendLog,        \* every POST attempted by this client instance, in order
    arg,            \* input of the pure function under check
    res             \* its result

guestVars == <<guest, CONFIG, BLACKLIST, HTTP_CLIENT, CLIENT_CONFIG, LOG_LEVEL>>
hostVars == <<hostConfig, txn, hostBody, features, now>>
obsVars == <<ret, hostCalls, hostLog, posts, sendLog>>
pureVars == <<arg, res>>
vars == <<guestVars, hostVars, obsVars, pureVars>>

(***************************************************************************)
(* Text                                                                    *)
(***************************************************************************)
Upper == <<"A","B","C","D","E","F","G","H","I","J","K","L","M",
           "N","O","P","Q","R","S","T","U","V","W","X","Y","Z">>
Lower == <<"a","b","c","d","e","f","g","h","i","j","k","l","m",
           "n","o","p","q","r","s","t","u","v","w","x","y","z">>

\* char::to_lowercase on the ASCII range
to_lowercase_char(c) ==
    IF \E i \in 1..26 : Upper[i] = c
    THEN Lower[CHOOSE i \in 1..26 : Upper[i] = c]
    ELSE c

\* str::to_lowercase
to_lowercase(s) == [i \in 1..Len(s) |-> to_lowercase_char(s[i])]

\* str::contains for a literal needle
contains(s, needle) ==
    \E i \in 0..(Len(s) - Len(needle)) :
        SubSeq(s, i + 1, i + Len(needle)) = needle

\* rust-http-wasm/src/utils.rs is_json, mutated: the comparison keeps the case
is_json_case_sensitive(content_type) ==
    contains(content_type,
             <<"a","p","p","l","i","c","a","t","i","o","n","/","j","s","o","n">>)

\* rust-http-wasm/src/utils.rs is_json
is_json(content_type) ==
    contains(to_lowercase(content_type),
             <<"a","p","p","l","i","c","a","t","i","o","n","/","j","s","o","n">>)

(***************************************************************************)
(* Regular expressions.  Regex::new is a table from the pattern sources    *)
(* the model uses to their compiled form: an alternation of literals with  *)
(* optional ^ and $ anchors and an optional (?i) flag, or a compile error. *)
(***************************************************************************)
DEFAULT_SENSITIVE_KEYS_REGEX ==
    "(?i)(password|pwd|secret|password_confirmation|cc|card_number|ccv|ssn|credit_score)"

RegexSources ==
    { "(?i)pwd", "pwd", "^id$", "(?i)(pwd|id)", "[invalid",
      "^/internal/.*$", "^/health$", "users", DEFAULT_SENSITIVE_KEYS_REGEX }

Regex_new(src) ==
    CASE src = "(?i)pwd" ->
           [ok |-> TRUE, ci |-> TRUE, anchorStart |-> FALSE, anchorEnd |-> FALSE,
            alts |-> { <<"p","w","d">> }]
      [] src = "pwd" ->
           [ok |-> TRUE, ci |-> FALSE, anchorStart |-> FALSE, anchorEnd |-> FALSE,
            alts |-> { <<"p","w","d">> }]
      [] src = "^id$" ->
           [ok |-> TRUE, ci |-> FALSE, anchorStart |-> TRUE, anchorEnd |-> TRUE,
            alts |-> { <<"i","d">> }]
      [] src = "(?i)(pwd|id)" ->
           [ok |-> TRUE, ci |-> TRUE, anchorStart |-> FALSE, anchorEnd |-> FALSE,
            alts |-> { <<"p","w","d">>, <<"i","d">> }]
      [] src = "^/internal/.*$" ->
           [ok |-> TRUE, ci |-> FALSE, anchorStart |-> TRUE, anchorEnd |-> FALSE,
            alts |-> { <<"/","i","n","t","e","r","n","a","l","/">> }]
      [] src = "^/health$" ->
           [ok |-> TRUE, ci |-> FALSE, anchorStart |-> TRUE, anchorEnd |-> TRUE,
            alts |-> { <<"/","h","e","a","l","t","h">> }]
      [] src = DEFAULT_SENSITIVE_KEYS_REGEX ->
           [ok |-> TRUE, ci |-> TRUE, anchorStart |-> FALSE, anchorEnd |-> FALSE,
            alts |-> { <<"p","a","s","s","w","o","r","d">>, <<"p","w","d">>,
                       <<"s","e","c","r","e","t">>,
                       <<"p","a","s","s","w","o","r","d","_","c","o","n","f","i",
                         "r","m","a","t","i","o","n">>,
                       <<"c","c">>,
                       <<"c","a","r","d","_","n","u","m","b","e","r">>,
                       <<"c","c","v">>, <<"s","s","n">>,
                       <<"c","r","e","d","i","t","_","s","c","o","r","e">> }]
      [] src = "users" ->
           [ok |-> TRUE, ci |-> FALSE, anchorStart |-> FALSE, anchorEnd |-> FALSE,
            alts |-> { <<"u","s","e","r","s">> }]
      [] OTHER ->
           [ok |-> FALSE, ci |-> FALSE, anchorStart |-> FALSE, anchorEnd |-> FALSE,
            alts |-> {}]

\* Regex::is_match: an unanchored search, so a match anywhere in the text counts
is_match(re, text) ==
    LET fold(s) == IF re.ci THEN to_lowercase(s) ELSE s
        t == fold(text)
    IN  \E lit \in re.alts :
          \E i \in 0..(Len(t) - Len(lit)) :
              /\ SubSeq(t, i + 1, i + Len(lit)) = fold(lit)
              /\ re.anchorStart => i = 0
              /\ re.anchorEnd => i + Len(lit) = Len(t)

(***************************************************************************)
(* JSON values (serde_json::Value)                                         *)
(***************************************************************************)
JNull == [t |-> "null", v |-> "null"]
JBool(b) == [t |-> "bool", v |-> b]
JNumber(n) == [t |-> "number", v |-> n]
JString(s) == [t |-> "string", v |-> s]
JArray(a) == [t |-> "array", v |-> a]
JObject(m) == [t |-> "object", v |-> m]

\* Result<T, TreblleError>
Ok(x) == [ok |-> TRUE, v |-> x, err |-> ""]
Err(e) == [ok |-> FALSE, v |-> JNull, err |-> e]

\* once_cell::sync::Lazy<T>: empty until the first dereference
Uninit == [init |-> FALSE, v |-> "uninit"]
Lazy(x) == [init |-> TRUE, v |-> x]

\* the indices of an array, or the keys of an object, holding a failed result
Failed(results) == { k \in DOMAIN results : ~results[k].ok }

RECURSIVE mask_no_array_recursion(_, _)
\* mask_sensitive_data, mutated: arrays are copied instead of mapped
mask_no_array_recursion(data, sensitive_keys_regex) ==
    LET re == Regex_new(sensitive_keys_regex)
    IN  IF ~re.ok THEN Err("Regex")
        ELSE IF data.t = "object"
        THEN LET sub == [key \in DOMAIN data.v |->
                            IF is_match(re, key)
                            THEN Ok(JString("*****"))
                            ELSE mask_no_array_recursion(data.v[key],
                                                         sensitive_keys_regex)]
             IN  IF Failed(sub) # {}
                 THEN Err("Regex")
                 ELSE Ok(JObject([key \in DOMAIN data.v |-> sub[key].v]))
        ELSE Ok(data)

RECURSIVE mask_overwrites_scalars(_, _)
\* mask_sensitive_data, mutated: a string value is masked whatever its key
mask_overwrites_scalars(data, sensitive_keys_regex) ==
    LET re == Regex_new(sensitive_keys_regex)
    IN  IF ~re.ok THEN Err("Regex")
        ELSE IF data.t = "object"
        THEN LET sub == [key \in DOMAIN data.v |->
                            IF is_match(re, key)
                            THEN Ok(JString("*****"))
                            ELSE mask_overwrites_scalars(data.v[key],
                                                         sensitive_keys_regex)]
             IN  Ok(JObject([key \in DOMAIN data.v |-> sub[key].v]))
        ELSE IF data.t = "array"
        THEN LET sub == [i \in DOMAIN data.v |->
                            mask_overwrites_scalars(data.v[i], sensitive_keys_regex)]
             IN  Ok(JArray([i \in DOMAIN data.v |-> sub[i].v]))
        ELSE IF data.t = "string" THEN Ok(JString("*****"))
        ELSE Ok(data)

RECURSIVE mask_drops_matching_keys(_, _)
\* mask_sensitive_data, mutated: a matching key is left out of the new map
mask_drops_matching_keys(data, sensitive_keys_regex) ==
    LET re == Regex_new(sensitive_keys_regex)
    IN  IF ~re.ok THEN Err("Regex")
        ELSE IF data.t = "object"
        THEN LET kept == { key \in DOMAIN data.v : ~is_match(re, key) }
                 sub == [key \in kept |->
                            mask_drops_matching_keys(data.v[key], sensitive_keys_regex)]
             IN  IF Failed(sub) # {}
                 THEN Err("Regex")
                 ELSE Ok(JObject([key \in kept |-> sub[key].v]))
        ELSE IF data.t = "array"
        THEN LET sub == [i \in DOMAIN data.v |->
                            mask_drops_matching_keys(data.v[i], sensitive_keys_regex)]
             IN  IF Failed(sub) # {}
                 THEN Err("Regex")
                 ELSE Ok(JArray([i \in DOMAIN data.v |-> sub[i].v]))
        ELSE Ok(data)

RECURSIVE mask_sensitive_data(_, _)
\* rust-http-wasm/src/utils.rs mask_sensitive_data: the regex is compiled on
\* every level; a matching key's value becomes "*****" and is not descended
\* into; other values are rebuilt recursively; the first error is returned.
mask_sensitive_data(data, sensitive_keys_regex) ==
    LET re == Regex_new(sensitive_keys_regex)
    IN  IF ~re.ok THEN Err("Regex")
        ELSE IF data.t = "object"
        THEN LET sub == [key \in DOMAIN data.v |->
                            IF is_match(re, key)
                            THEN Ok(JString("*****"))
                            ELSE mask_sensitive_data(data.v[key],
                                                     sensitive_keys_regex)]
             IN  IF Failed(sub) # {}
                 THEN Err("Regex")
                 ELSE Ok(JObject([key \in DOMAIN data.v |-> sub[key].v]))
        ELSE IF data.t = "array"
        THEN LET sub == [i \in DOMAIN data.v |->
                            mask_sensitive_data(data.v[i], sensitive_keys_regex)]
             IN  IF Failed(sub) # {}
                 THEN Err("Regex")
                 ELSE Ok(JArray([i \in DOMAIN data.v |-> sub[i].v]))
        ELSE Ok(data)

\* mask_sensitive_headers, mutated: the test on the header name is inverted
mask_headers_inverted(headers, sensitive_keys_regex) ==
    LET re == Regex_new(sensitive_keys_regex)
    IN  IF ~re.ok THEN Err("Regex")
        ELSE Ok([key \in DOMAIN headers |->
                    IF is_match(re, key) THEN headers[key] ELSE "*****"])

\* rust-http-wasm/src/utils.rs mask_sensitive_headers
mask_sensitive_headers(headers, sensitive_keys_regex) ==
    LET re == Regex_new(sensitive_keys_regex)
    IN  IF ~re.ok THEN Err("Regex")
        ELSE Ok([key \in DOMAIN headers |->
                    IF is_match(re, key) THEN "*****" ELSE headers[key]])

(***************************************************************************)
(* The redactor on its own: SpecMask draws a JSON value, a header map and  *)
(* a pattern, and applies mask_sensitive_data and mask_sensitive_headers.  *)
(***************************************************************************)
MaxArrayLen == 2

MaskKeys == { <<"P","w","d">>, <<"i","d">> }
MaskRegexes == { "(?i)pwd", "pwd", "^id$", "(?i)(pwd|id)", "[invalid" }

JsonScalars == { JNull, JString("s") }
ObjectsOver(vals) ==
    { JObject(m) : m \in UNION { [K -> vals] : K \in SUBSET MaskKeys } }
ArraysOver(vals) ==
    { JArray(a) : a \in UNION { [1..n -> vals] : n \in 0..MaxArrayLen } }
JsonLevel1 == JsonScalars \cup ObjectsOver(JsonScalars) \cup ArraysOver(JsonScalars)
JsonLevel2 ==
    JsonLevel1 \cup ObjectsOver(JsonLevel1)
               \cup ArraysOver(JsonScalars \cup ObjectsOver(JsonScalars))

HeaderMaps == UNION { [K -> {"v"}] : K \in SUBSET MaskKeys }

Pending == [ok |-> FALSE, v |-> JNull, err |-> "pending"]

\* the variables of the handler and of the client, at rest
GuestAtRest ==
    /\ guest = "running"
    /\ CONFIG = Uninit
    /\ BLACKLIST = Uninit
    /\ HTTP_CLIENT = Uninit
    /\ CLIENT_CONFIG = "none"
    /\ LOG_LEVEL = 0
HostAtRest ==
    /\ hostConfig = "none"
    /\ txn = "none"
    /\ hostBody = "none"
    /\ features = <<>>
    /\ now = 0
ObsAtRest ==
    /\ ret = "none"
    /\ hostCalls = <<>>
    /\ hostLog = <<>>
    /\ posts = <<>>
    /\ sendLog = <<>>

InitMask ==
    /\ GuestAtRest /\ HostAtRest /\ ObsAtRest
    /\ arg \in [data : JsonLevel2, headers : HeaderMaps, regex : MaskRegexes]
    /\ res = [data |-> Pending, headers |-> Pending]

CallMaskData ==
    /\ res.data = Pending
    /\ res' = [res EXCEPT !.data = mask_sensitive_data(arg.data, arg.regex)]
    /\ UNCHANGED <<guestVars, hostVars, obsVars, arg>>

CallMaskHeaders ==
    /\ res.headers = Pending
    /\ res' = [res EXCEPT !.headers = mask_sensitive_headers(arg.headers, arg.regex)]
    /\ UNCHANGED <<guestVars, hostVars, obsVars, arg>>

NextMask == CallMaskData \/ CallMaskHeaders

SpecMask == InitMask /\ [][NextMask]_vars

\* whether a key name is sensitive under the configured pattern
Sensitive(key) == is_match(Regex_new(arg.regex), key)

RECURSIVE Complete(_, _)
\* every sensitive key reachable through non-sensitive keys and arrays holds
\* the string "*****" (and so none of its children) in the output
Complete(in, out) ==
    IF in.t = "object"
    THEN /\ out.t = "object"
         /\ DOMAIN out.v = DOMAIN in.v
         /\ \A key \in DOMAIN in.v :
               IF Sensitive(key)
               THEN out.v[key] = JString("*****")
               ELSE Complete(in.v[key], out.v[key])
    ELSE IF in.t = "array"
    THEN /\ out.t = "array"
         /\ DOMAIN out.v = DOMAIN in.v
         /\ \A i \in DOMAIN in.v : Complete(in.v[i], out.v[i])
    ELSE TRUE

\* C7: redaction completeness (P4): in the redacted body every field whose
\* key matches sensitive_keys_regex, at any depth reachable through
\* non-matching keys and arrays, is exactly the string "*****", and every
\* header whose name matches has the value "*****".
C7_RedactionComplete ==
    /\ res.data.ok => Complete(arg.data, res.data.v)
    /\ res.headers.ok =>
          /\ DOMAIN res.headers.v = DOMAIN arg.headers
          /\ \A name \in DOMAIN arg.headers :
                Sensitive(name) => res.headers.v[name] = "*****"

RECURSIVE HasSensitiveKey(_)
HasSensitiveKey(value) ==
    IF value.t = "object"
    THEN \E key \in DOMAIN value.v : Sensitive(key) \/ HasSensitiveKey(value.v[key])
    ELSE IF value.t = "array"
    THEN \E i \in DOMAIN value.v : HasSensitiveKey(value.v[i])
    ELSE FALSE

\* a sensitive key nested under a sensitive key of an array element was masked
C7_Witness ==
    /\ res.data.ok /\ res.headers.ok
    /\ arg.data.t = "array" /\ Len(arg.data.v) = 2
    /\ arg.data.v[2].t = "object"
    /\ \E key \in DOMAIN arg.data.v[2].v :
          Sensitive(key) /\ res.data.v.v[2].v[key] # arg.data.v[2].v[key]
    /\ \E name \in DOMAIN arg.headers : Sensitive(name)

RECURSIVE ChangedOnlyAtSensitiveKeys(_, _)
\* the output has the input's shape and differs from it at sensitive keys only
ChangedOnlyAtSensitiveKeys(in, out) ==
    IF in.t = "object"
    THEN /\ out.t = "object"
         /\ DOMAIN out.v = DOMAIN in.v
         /\ \A key \in DOMAIN in.v :
               ~Sensitive(key) => ChangedOnlyAtSensitiveKeys(in.v[key], out.v[key])
    ELSE IF in.t = "array"
    THEN /\ out.t = "array"
         /\ DOMAIN out.v = DOMAIN in.v
         /\ \A i \in DOMAIN in.v : ChangedOnlyAtSensitiveKeys(in.v[i], out.v[i])
    ELSE out = in

\* C8 as stated: the value at every non-matching key equals the input value
C8_AsStated ==
    /\ (res.data.ok /\ arg.data.t = "object") =>
          \A key \in DOMAIN arg.data.v :
              ~Sensitive(key) => res.data.v.v[key] = arg.data.v[key]
    /\ res.headers.ok =>
          \A name \in DOMAIN arg.headers :
              ~Sensitive(name) => res.headers.v[name] = arg.headers[name]

\* C8: redaction soundness (P5), amended: the value at a non-matching key
\* equals the input value whenever no key below it matches, and otherwise
\* differs from it only at the matching keys below it; a header whose name
\* does not match keeps its input value.
C8_RedactionSound ==
    /\ res.data.ok =>
          /\ ChangedOnlyAtSensitiveKeys(arg.data, res.data.v)
          /\ ~HasSensitiveKey(arg.data) => res.data.v = arg.data
    /\ res.headers.ok =>
          \A name \in DOMAIN arg.headers :
              ~Sensitive(name) => res.headers.v[name] = arg.headers[name]

\* a non-matching key with a plain value next to a masked key, and a
\* non-matching header, went through the redactor
C8_Witness ==
    /\ res.data.ok /\ res.headers.ok
    /\ arg.data.t = "object"
    /\ \E key \in DOMAIN arg.data.v :
          /\ ~Sensitive(key)
          /\ arg.data.v[key] = JString("s")
          /\ res.data.v.v[key] = JString("s")
    /\ \E key \in DOMAIN arg.data.v : Sensitive(key)
    /\ \E name \in DOMAIN arg.headers : ~Sensitive(name)

(***************************************************************************)
(* The WASI HTTPS client (treblle-wasm-plugin/src/wasi_http_client.rs)     *)
(***************************************************************************)
CONNECT_TIMEOUT == 5
CONNECTION_TIMEOUT == 60
MAX_POOL_SIZE == 50
\* AtomicUsize wraps modulo 2^w; w is 32 on wasm32, and is scaled down here
\* because the model checker's integers are themselves 32 bits wide
UsizeBits == 5
USIZE_MODULUS == 2 ^ UsizeBits

\* url::Url::parse with host_str, port_or_known_default and path, as a table
\* of the endpoint URLs the model uses
Url_parse(url) ==
    CASE url = "https://rocknrolla.treblle.com" ->
           [ok |-> TRUE, host |-> "rocknrolla.treblle.com", port |-> 443, path |-> "/"]
      [] url = "https://punisher.treblle.com" ->
           [ok |-> TRUE, host |-> "punisher.treblle.com", port |-> 443, path |-> "/"]
      [] url = "https://sicario.treblle.com" ->
           [ok |-> TRUE, host |-> "sicario.treblle.com", port |-> 443, path |-> "/"]
      [] OTHER ->
           [ok |-> FALSE, host |-> "", port |-> 0, path |-> ""]

DEFAULT_TREBLLE_API_URLS ==
    << "https://rocknrolla.treblle.com",
       "https://punisher.treblle.com",
       "https://sicario.treblle.com" >>

\* WasiHttpClient::new
WasiHttpClient_new(treblle_api_urls) ==
    [treblle_api_urls |-> treblle_api_urls,
     current_url_index |-> 0,
     connection_pool |-> <<>>]

\* get_next_url, mutated: the index is taken after the increment
get_next_url_after_increment(client) ==
    LET n == Len(client.treblle_api_urls)
        next == (client.current_url_index + 1) % USIZE_MODULUS
    IN  IF n = 0
        THEN [panic |-> TRUE, url |-> "", client |-> client]
        ELSE [panic |-> FALSE,
              url |-> client.treblle_api_urls[(next % n) + 1],
              client |-> [client EXCEPT !.current_url_index = next]]

\* WasiHttpClient::get_next_url: fetch_add returns the previous value and
\* wraps; a remainder by zero panics
get_next_url(client) ==
    LET n == Len(client.treblle_api_urls)
        index == client.current_url_index
    IN  IF n = 0
        THEN [panic |-> TRUE, url |-> "",
              client |-> [client EXCEPT
                             !.current_url_index = (index + 1) % USIZE_MODULUS]]
        ELSE [panic |-> FALSE,
              url |-> client.treblle_api_urls[(index % n) + 1],
              client |-> [client EXCEPT
                             !.current_url_index = (index + 1) % USIZE_MODULUS]]

\* retain, mutated: an entry idle for exactly CONNECTION_TIMEOUT is kept
retain_fresh_inclusive(pool, t) ==
    SelectSeq(pool, LAMBDA conn : t - conn.last_used <= CONNECTION_TIMEOUT)

\* pool.retain(|conn| conn.last_used.elapsed() < CONNECTION_TIMEOUT)
retain_fresh(pool, t) ==
    SelectSeq(pool, LAMBDA conn : t - conn.last_used < CONNECTION_TIMEOUT)

NoStream == [host |-> "", port |-> 0]

\* WasiHttpClient::get_client_config: the first call stores the TLS client
\* configuration, later calls clone it
get_client_config(tls) ==
    IF tls # "none"
    THEN [tls |-> tls, logs |-> <<>>]
    ELSE [tls |-> "set",
          logs |-> << <<0, "Initializing TLS client configuration">>,
                      <<-1, "Webpki root certificates loaded successfully">> >>]

\* get_connection, mutated: a refused connect takes the counter back
get_connection_rewinds(client, tls, t, host, port, connect) ==
    LET pool == retain_fresh(client.connection_pool, t)
    IN  IF pool # <<>>
        THEN [result |-> Ok(Head(pool).stream), reused |-> TRUE,
              client |-> [client EXCEPT !.connection_pool = Tail(pool)],
              tls |-> tls, logs |-> <<>>]
        ELSE IF connect = "refused"
        THEN [result |-> Err("Io"), reused |-> FALSE,
              client |-> [client EXCEPT
                             !.connection_pool = pool,
                             !.current_url_index =
                                 (@ + USIZE_MODULUS - 1) % USIZE_MODULUS],
              tls |-> tls, logs |-> <<>>]
        ELSE LET cc == get_client_config(tls)
             IN  [result |-> Ok([host |-> host, port |-> port]), reused |-> FALSE,
                  client |-> [client EXCEPT !.connection_pool = pool],
                  tls |-> cc.tls, logs |-> cc.logs]

\* get_connection, mutated: once a first send has been attempted, no new
\* connection is opened any more
get_connection_gives_up(client, tls, t, host, port, connect) ==
    LET pool == retain_fresh(client.connection_pool, t)
    IN  IF pool # <<>>
        THEN [result |-> Ok(Head(pool).stream), reused |-> TRUE,
              client |-> [client EXCEPT !.connection_pool = Tail(pool)],
              tls |-> tls, logs |-> <<>>]
        ELSE IF connect = "refused" \/ client.current_url_index > 1
        THEN [result |-> Err("Io"), reused |-> FALSE,
              client |-> [client EXCEPT !.connection_pool = pool],
              tls |-> tls, logs |-> <<>>]
        ELSE LET cc == get_client_config(tls)
             IN  [result |-> Ok([host |-> host, port |-> port]), reused |-> FALSE,
                  client |-> [client EXCEPT !.connection_pool = pool],
                  tls |-> cc.tls, logs |-> cc.logs]

\* WasiHttpClient::get_connection: expired entries are dropped, then the
\* front entry of the pool, if any, is handed out; otherwise a new stream
\* is opened to (host, port).  `connect' is what the network answers.
get_connection(client, tls, t, host, port, connect) ==
    LET pool == retain_fresh(client.connection_pool, t)
    IN  IF pool # <<>>
        THEN [result |-> Ok(Head(pool).stream), reused |-> TRUE,
              client |-> [client EXCEPT !.connection_pool = Tail(pool)],
              tls |-> tls, logs |-> <<>>]
        ELSE IF connect = "refused"
        THEN [result |-> Err("Io"), reused |-> FALSE,
              client |-> [client EXCEPT !.connection_pool = pool],
              tls |-> tls, logs |-> <<>>]
        ELSE LET cc == get_client_config(tls)
             IN  [result |-> Ok([host |-> host, port |-> port]), reused |-> FALSE,
                  client |-> [client EXCEPT !.connection_pool = pool],
                  tls |-> cc.tls, logs |-> cc.logs]

\* return_connection, mutated: the stream is dropped whatever the pool holds
return_connection_dropped(client, stream, t) == client

\* WasiHttpClient::return_connection
return_connection(client, stream, t) ==
    IF Len(client.connection_pool) < MAX_POOL_SIZE
    THEN [client EXCEPT !.connection_pool =
             Append(@, [stream |-> stream, last_used |-> t])]
    ELSE client

\* create_request, mutated: Content-Length does not follow the payload
create_request_fixed_length(host, path, payload, api_key) ==
    << <<"POST", path, "HTTP/1.1">>,
       <<"Host", host>>,
       <<"Content-Type", "application/json">>,
       <<"X-Api-Key", api_key>>,
       <<"Content-Length", 2>>,
       <<"Connection", "keep-alive">>,
       <<>> >>

\* WasiHttpClient::create_request: the request head
create_request(host, path, payload, api_key) ==
    << <<"POST", path, "HTTP/1.1">>,
       <<"Host", host>>,
       <<"Content-Type", "application/json">>,
       <<"X-Api-Key", api_key>>,
       <<"Content-Length", Len(payload)>>,
       <<"Connection", "keep-alive">>,
       <<>> >>

\* WasiHttpClient::post, mutated: the stream goes back to the pool when the
\* write failed as well
WasiPost_keeps_failed(client, tls, t, payload, api_key, net) ==
    LET nu == get_next_url(client)
        parsed_url == Url_parse(nu.url)
        gc == get_connection(nu.client, tls, t, parsed_url.host, parsed_url.port,
                             net.connect)
        entry == [url |-> nu.url, stream |-> NoStream, reused |-> FALSE,
                  head |-> <<>>, body |-> <<>>, result |-> "Ok"]
    IN  IF nu.panic
        THEN [panic |-> TRUE, result |-> Err("panic"), client |-> nu.client,
              tls |-> tls, logs |-> <<>>, entry |-> [entry EXCEPT !.result = "panic"]]
        ELSE IF ~parsed_url.ok
        THEN [panic |-> FALSE, result |-> Err("InvalidUrl"), client |-> nu.client,
              tls |-> tls, logs |-> <<>>,
              entry |-> [entry EXCEPT !.result = "InvalidUrl"]]
        ELSE IF ~gc.result.ok
        THEN [panic |-> FALSE, result |-> gc.result, client |-> gc.client,
              tls |-> gc.tls, logs |-> gc.logs,
              entry |-> [entry EXCEPT !.result = gc.result.err]]
        ELSE LET stream == gc.result.v
                 sent == [entry EXCEPT
                             !.stream = stream,
                             !.reused = gc.reused,
                             !.head = create_request(parsed_url.host, parsed_url.path,
                                                     payload, api_key),
                             !.body = payload]
             IN  IF net.write = "timeout"
                 THEN [panic |-> FALSE, result |-> Err("Timeout"),
                       client |-> return_connection(gc.client, stream, t),
                       tls |-> gc.tls, logs |-> gc.logs,
                       entry |-> [sent EXCEPT !.result = "Timeout"]]
                 ELSE IF net.write = "io"
                 THEN [panic |-> FALSE, result |-> Err("Io"),
                       client |-> return_connection(gc.client, stream, t),
                       tls |-> gc.tls, logs |-> gc.logs,
                       entry |-> [sent EXCEPT !.result = "Io"]]
                 ELSE [panic |-> FALSE, result |-> Ok(JNull),
                       client |-> return_connection(gc.client, stream, t),
                       tls |-> gc.tls, logs |-> gc.logs,
                       entry |-> sent]

\* WasiHttpClient::post, mutated: after the write the client reads the
\* collector's answer and takes any status but 200 as a failure (0: the
\* collector does not answer)
WasiPost_validating(client, tls, t, payload, api_key, net) ==
    LET nu == get_next_url(client)
        parsed_url == Url_parse(nu.url)
        gc == get_connection(nu.client, tls, t, parsed_url.host, parsed_url.port,
                             net.connect)
        status == IF "status" \in DOMAIN net THEN net.status ELSE 200
        entry == [url |-> nu.url, stream |-> NoStream, reused |-> FALSE,
                  head |-> <<>>, body |-> <<>>, result |-> "Ok"]
    IN  IF nu.panic
        THEN [panic |-> TRUE, result |-> Err("panic"), client |-> nu.client,
              tls |-> tls, logs |-> <<>>, entry |-> [entry EXCEPT !.result = "panic"]]
        ELSE IF ~parsed_url.ok
        THEN [panic |-> FALSE, result |-> Err("InvalidUrl"), client |-> nu.client,
              tls |-> tls, logs |-> <<>>,
              entry |-> [entry EXCEPT !.result = "InvalidUrl"]]
        ELSE IF ~gc.result.ok
        THEN [panic |-> FALSE, result |-> gc.result, client |-> gc.client,
              tls |-> gc.tls, logs |-> gc.logs,
              entry |-> [entry EXCEPT !.result = gc.result.err]]
        ELSE LET stream == gc.result.v
                 sent == [entry EXCEPT
                             !.stream = stream,
                             !.reused = gc.reused,
                             !.head = create_request(parsed_url.host, parsed_url.path,
                                                     payload, api_key),
                             !.body = payload]
             IN  IF net.write = "timeout" \/ (net.write = "ok" /\ status = 0)
                 THEN [panic |-> FALSE, result |-> Err("Timeout"),
                       client |-> gc.client, tls |-> gc.tls, logs |-> gc.logs,
                       entry |-> [sent EXCEPT !.result = "Timeout"]]
                 ELSE IF net.write = "io" \/ status # 200
                 THEN [panic |-> FALSE, result |-> Err("Io"),
                       client |-> gc.client, tls |-> gc.tls, logs |-> gc.logs,
                       entry |-> [sent EXCEPT !.result = "Io"]]
                 ELSE [panic |-> FALSE, result |-> Ok(JNull),
                       client |-> return_connection(gc.client, stream, t),
                       tls |-> gc.tls, logs |-> gc.logs,
                       entry |-> sent]

\* WasiHttpClient::post.  net.connect is the answer to a TCP connect
\* ("ok" | "refused"); net.write is how send_non_blocking ends
\* ("ok" | "timeout" | "io").
WasiPost(client, tls, t, payload, api_key, net) ==
    LET nu == get_next_url(client)
        parsed_url == Url_parse(nu.url)
        gc == get_connection(nu.client, tls, t, parsed_url.host, parsed_url.port,
                             net.connect)
        entry == [url |-> nu.url, stream |-> NoStream, reused |-> FALSE,
                  head |-> <<>>, body |-> <<>>, result |-> "Ok"]
    IN  IF nu.panic
        THEN [panic |-> TRUE, result |-> Err("panic"), client |-> nu.client,
              tls |-> tls, logs |-> <<>>, entry |-> [entry EXCEPT !.result = "panic"]]
        ELSE IF ~parsed_url.ok
        THEN [panic |-> FALSE, result |-> Err("InvalidUrl"), client |-> nu.client,
              tls |-> tls, logs |-> <<>>,
              entry |-> [entry EXCEPT !.result = "InvalidUrl"]]
        ELSE IF ~gc.result.ok
        THEN [panic |-> FALSE, result |-> gc.result, client |-> gc.client,
              tls |-> gc.tls, logs |-> gc.logs,
              entry |-> [entry EXCEPT !.result = gc.result.err]]
        ELSE LET stream == gc.result.v
                 sent == [entry EXCEPT
                             !.stream = stream,
                             !.reused = gc.reused,
                             !.head = create_request(parsed_url.host, parsed_url.path,
                                                     payload, api_key),
                             !.body = payload]
             IN  IF net.write = "timeout"
                 THEN [panic |-> FALSE, result |-> Err("Timeout"),
                       client |-> gc.client, tls |-> gc.tls, logs |-> gc.logs,
                       entry |-> [sent EXCEPT !.result = "Timeout"]]
                 ELSE IF net.write = "io"
                 THEN [panic |-> FALSE, result |-> Err("Io"),
                       client |-> gc.client, tls |-> gc.tls, logs |-> gc.logs,
                       entry |-> [sent EXCEPT !.result = "Io"]]
                 ELSE [panic |-> FALSE, result |-> Ok(JNull),
                       client |-> return_connection(gc.client, stream, t),
                       tls |-> gc.tls, logs |-> gc.logs,
                       entry |-> sent]

NetOutcomes == [connect : {"ok", "refused"}, write : {"ok", "timeout", "io"}]

(***************************************************************************)
(* The client on its own: SpecClient posts through one client instance     *)
(* while the clock advances.                                               *)
(***************************************************************************)
MaxPosts == 6
MaxTicks == 2
TickSeconds == CONNECTION_TIMEOUT \div 2

\* the endpoint lists a configuration may give: none, one, two or three
\* URLs, and a list whose first entry is not a URL
EndpointLists ==
    { SubSeq(DEFAULT_TREBLLE_API_URLS, 1, n) : n \in 0..3 }
    \cup { << "not a url", DEFAULT_TREBLLE_API_URLS[1] >> }

\* the serialized records the sends carry: send i carries ClientPayload(i)
ClientPayloads ==
    << <<"{", "}">>,
       <<"{", "\"", "a", "\"", ":", "1", "}">>,
       <<"[", "1", "]">>,
       <<"{", "\"", "a", "\"", ":", "[", "]", "}">> >>
ClientPayload(i) == ClientPayloads[(i % Len(ClientPayloads)) + 1]

InitClient ==
    /\ guest = "running"
    /\ CONFIG = Uninit
    /\ BLACKLIST = Uninit
    /\ HTTP_CLIENT \in { Lazy(WasiHttpClient_new(urls)) : urls \in EndpointLists }
    /\ CLIENT_CONFIG = "none"
    /\ LOG_LEVEL = 0
    /\ HostAtRest /\ ObsAtRest
    /\ arg = "none" /\ res = "none"

Post ==
    /\ guest = "running"
    /\ Len(sendLog) < MaxPosts
    /\ \E net \in NetOutcomes :
          LET p == WasiPost(HTTP_CLIENT.v, CLIENT_CONFIG, now,
                            ClientPayload(Len(sendLog)), "key", net)
          IN  /\ HTTP_CLIENT' = Lazy(p.client)
              /\ CLIENT_CONFIG' = p.tls
              /\ guest' = IF p.panic THEN "trapped" ELSE "running"
              /\ sendLog' = Append(sendLog, p.entry)
    /\ UNCHANGED <<CONFIG, BLACKLIST, LOG_LEVEL, hostVars, ret, hostCalls, hostLog,
                   posts, pureVars>>

Tick ==
    /\ now < MaxTicks * TickSeconds
    /\ now' = now + TickSeconds
    /\ UNCHANGED <<guestVars, hostConfig, txn, hostBody, features, obsVars, pureVars>>

NextClient == Post \/ Tick

SpecClient == InitClient /\ [][NextClient]_vars

\* how many of the first n sends selected the endpoint url
RECURSIVE SendsTo(_, _)
SendsTo(url, n) ==
    IF n = 0 THEN 0
    ELSE SendsTo(url, n - 1) + (IF sendLog[n].url = url THEN 1 ELSE 0)

C10_PoolKeyedByHostPort ==
    \A i \in 1..Len(sendLog) :
        sendLog[i].stream # NoStream =>
            /\ sendLog[i].stream.host = Url_parse(sendLog[i].url).host
            /\ sendLog[i].stream.port = Url_parse(sendLog[i].url).port
(***************************************************************************)
(* The host boundary (rust-http-wasm/src/host_functions.rs).  A host       *)
(* function answers with the length it returns and the bytes it leaves in  *)
(* the guest buffer; the handler threads a machine record `m' through its  *)
(* steps: the statics, what the host has seen so far, and how far the      *)
(* invocation got ("run", "ok", "err", "panic", or "needs" when the next   *)
(* host answer has not been chosen yet).                                   *)
(***************************************************************************)
READ_BUF_SIZE == 2048
LOG_LEVEL_DEBUG == -1
LOG_LEVEL_INFO == 0
LOG_LEVEL_WARN == 1
LOG_LEVEL_ERROR == 2
LOG_LEVEL_NONE == 3
REQUEST_KIND == 0
RESPONSE_KIND == 1
\* host_enable_features(2): FeatureBufferResponse
FEATURE_BUFFER_RESPONSE == 2
HEADER_CONTENT_TYPE == <<"C","o","n","t","e","n","t","-","T","y","p","e">>

Reply(len, data, utf8) == [asked |-> TRUE, len |-> len, data |-> data, utf8 |-> utf8]
NotAsked == [asked |-> FALSE, len |-> 0, data |-> <<>>, utf8 |-> TRUE]

\* a byte string: the bytes of `head' followed by `pad' space bytes
Bytes(head, pad, utf8) == [head |-> head, pad |-> pad, utf8 |-> utf8]
BLen(b) == Len(b.head) + b.pad
Min(a, b) == IF a < b THEN a ELSE b
Take(b, n) ==
    IF n >= BLen(b) THEN b
    ELSE IF n >= Len(b.head) THEN [b EXCEPT !.pad = n - Len(b.head)]
    ELSE [b EXCEPT !.head = SubSeq(b.head, 1, n), !.pad = 0]
Drop(b, n) ==
    IF n >= BLen(b) THEN [b EXCEPT !.head = <<>>, !.pad = 0]
    ELSE IF n >= Len(b.head) THEN [b EXCEPT !.head = <<>>, !.pad = BLen(b) - n]
    ELSE [b EXCEPT !.head = SubSeq(b.head, n + 1, Len(b.head))]

Machine(config, blacklist, client, tls, level, bodies, input) ==
    [st |-> "run", err |-> "", need |-> "", r |-> Ok(JNull), in |-> input,
     CONFIG |-> config, BLACKLIST |-> blacklist, HTTP_CLIENT |-> client,
     CLIENT_CONFIG |-> tls, LOG_LEVEL |-> level,
     calls |-> <<>>, log |-> <<>>, posts |-> <<>>, features |-> <<>>,
     body |-> bodies]

Called(m, fn, kind, name, data) ==
    [m EXCEPT !.calls = Append(@, [fn |-> fn, kind |-> kind, name |-> name,
                                   data |-> data])]

\* the `?' operator applied to the result in m.r
Try(m) ==
    IF m.st = "run" /\ ~m.r.ok THEN [m EXCEPT !.st = "err", !.err = m.r.err] ELSE m

\* let v = x; F(v): x is evaluated once and its value handed to F
Bind(x, F(_)) == CHOOSE y \in { F(v) : v \in {x} } : TRUE

\* host_log: the line goes to the host whatever the configured level
host_log(m, level, message) ==
    IF m.st # "run" THEN m ELSE [m EXCEPT !.log = Append(@, <<level, message>>)]

\* read_from_buffer: the host function is handed a 2048-byte buffer; a
\* negative length is a failure, any other length is used to slice the
\* buffer, which panics when it exceeds the buffer
read_from_buffer(m, fn, kind, name, reply) ==
    IF m.st # "run" THEN m
    ELSE IF ~reply.asked THEN [m EXCEPT !.st = "needs", !.need = fn]
    ELSE LET m1 == Called(m, fn, kind, name, reply.data)
         IN  IF reply.len < 0
             THEN [host_log(m1, LOG_LEVEL_ERROR, "Failed to read from buffer")
                      EXCEPT !.r = Err("HostFunction")]
             ELSE IF reply.len > READ_BUF_SIZE
             THEN [m1 EXCEPT !.st = "panic",
                             !.err = "range end index out of range for slice"]
             ELSE IF ~reply.utf8
             THEN [m1 EXCEPT !.r = Err("HostFunction")]
             ELSE [host_log(m1, LOG_LEVEL_INFO, "Read from buffer")
                      EXCEPT !.r = Ok(reply.data)]

host_get_config(m, reply) == read_from_buffer(m, "get_config", -1, <<>>, reply)
host_get_method(m, reply) == read_from_buffer(m, "get_method", -1, <<>>, reply)
host_get_uri(m, reply) == read_from_buffer(m, "get_uri", -1, <<>>, reply)

host_get_header_names(m, header_kind, reply) ==
    Bind(read_from_buffer(m, "get_header_names", header_kind, <<>>, reply),
         LAMBDA m1 :
             IF m1.st # "run" THEN m1
             ELSE IF m1.r.ok
             THEN host_log(m1, LOG_LEVEL_INFO, "Got header names")
             ELSE host_log(m1, LOG_LEVEL_ERROR, "Failed to get header names"))

host_get_header_values(m, header_kind, name, reply) ==
    Bind(read_from_buffer(m, "get_header_values", header_kind, name, reply),
         LAMBDA m1 :
             IF m1.st # "run" THEN m1
             ELSE IF m1.r.ok
             THEN host_log(m1, LOG_LEVEL_INFO, "Got header values")
             ELSE host_log(m1, LOG_LEVEL_ERROR, "Failed to get header values"))

\* the host's read_body: up to `cap' bytes of the body it holds are copied
\* to the guest and consumed; `fail' is a read the host reports as failed
HostReadBody(held, cap, fail) ==
    LET n == Min(BLen(held), cap)
    IN  IF fail
        THEN [reply |-> Reply(-1, Bytes(<<>>, 0, TRUE), TRUE), rest |-> held]
        ELSE [reply |-> Reply(n, Take(held, n), held.utf8), rest |-> Drop(held, n)]

NoBody == [known |-> FALSE, bytes |-> Bytes(<<>>, 0, TRUE)]
Held(bytes) == [known |-> TRUE, bytes |-> bytes]

\* host_read_request_body, with the body kind as a parameter: one call of
\* read_body through read_from_buffer
host_read_body(m, body_kind, input) ==
    IF m.st # "run" THEN m
    ELSE IF ~input.asked THEN [m EXCEPT !.st = "needs", !.need = "read_body"]
    ELSE LET h == HostReadBody(input.bytes, READ_BUF_SIZE, input.fail)
             m1 == read_from_buffer(m, "read_body", body_kind, <<>>, h.reply)
         IN  [m1 EXCEPT !.body[body_kind] = Held(h.rest)]

\* host_write_request_body, with the body kind as a parameter: the host
\* replaces the body it holds with the bytes written
host_write_body(m, body_kind, body) ==
    IF m.st # "run" THEN m
    ELSE LET m1 == Called(m, "write_body", body_kind, <<>>, body)
             m2 == [m1 EXCEPT !.body[body_kind] = Held(body)]
         IN  [host_log(m2, LOG_LEVEL_INFO, "Wrote bytes back to body")
                 EXCEPT !.r = Ok(JNull)]

\* get_protocol_version: the field is copied into the guest buffer
host_get_protocol_version(m, reply) ==
    read_from_buffer(m, "get_protocol_version", -1, <<>>, reply)

\* get_status_code: the response status
host_get_status_code(m, status) ==
    IF m.st # "run" THEN m
    ELSE IF status < 0 THEN [m EXCEPT !.st = "needs", !.need = "get_status_code"]
    ELSE [Called(m, "get_status_code", -1, <<>>, status) EXCEPT !.r = Ok(status)]

\* enable_features: the host is asked for the bits of mask and answers with
\* the bits it enabled
host_enable_features(m, mask) ==
    IF m.st # "run" THEN m
    ELSE IF m.in.grant < 0 THEN [m EXCEPT !.st = "needs", !.need = "enable_features"]
    ELSE [Called(m, "enable_features", -1, <<>>, mask) EXCEPT
             !.features = Append(@, [mask |-> mask, enabled |-> m.in.grant]),
             !.r = Ok(m.in.grant)]

(***************************************************************************)
(* Logger (treblle-wasm-plugin/src/logger.rs)                              *)
(***************************************************************************)
\* LogLevel::as_i32
as_i32(level) ==
    CASE level = "Debug" -> LOG_LEVEL_DEBUG
      [] level = "Info" -> LOG_LEVEL_INFO
      [] level = "Warn" -> LOG_LEVEL_WARN
      [] level = "Error" -> LOG_LEVEL_ERROR
      [] level = "None" -> LOG_LEVEL_NONE

\* LogLevel::from_str
LogLevel_from_str(s) ==
    LET l == to_lowercase(s)
    IN  CASE l = <<"d","e","b","u","g">> -> "Debug"
          [] l = <<"i","n","f","o">> -> "Info"
          [] l = <<"w","a","r","n">> \/ l = <<"w","a","r","n","i","n","g">> -> "Warn"
          [] l = <<"e","r","r","o","r">> -> "Error"
          [] l = <<"n","o","n","e">> -> "None"
          [] OTHER -> "None"

\* logger::log: the line is forwarded when its level is not below LOG_LEVEL;
\* level None is never forwarded
log(m, level, message) ==
    IF m.st # "run" THEN m
    ELSE IF as_i32(level) >= m.LOG_LEVEL /\ level # "None"
    THEN host_log(m, as_i32(level), message)
    ELSE m

(***************************************************************************)
(* Config (treblle-wasm-plugin/src/config.rs).  The configuration blob is  *)
(* modelled by its length, its UTF-8 validity and the JSON document it     *)
(* parses to, or NotJson when it does not parse.                           *)
(***************************************************************************)
NotJson == [t |-> "invalid", v |-> <<>>]

\* serde_json::from_str on the configuration blob
serde_json_from_str(raw) == IF raw.t = "invalid" THEN Err("Json") ELSE Ok(raw)

\* Option<T>
None == <<>>
Some(x) == <<x>>

\* Value::get, Value::as_array, Value::as_str, Value::as_bool
get(value, key) ==
    IF value.t = "object" /\ key \in DOMAIN value.v THEN Some(value.v[key]) ELSE None
as_array(o) == IF Len(o) = 1 /\ o[1].t = "array" THEN Some(o[1].v) ELSE None
as_str(o) == IF Len(o) = 1 /\ o[1].t = "string" THEN Some(o[1].v) ELSE None
as_bool(o) == IF Len(o) = 1 /\ o[1].t = "bool" THEN Some(o[1].v) ELSE None
unwrap_or(o, default) == IF Len(o) = 1 THEN o[1] ELSE default

\* a.iter().filter_map(|v| v.as_str().map(String::from)).collect()
strings_of(a) ==
    LET strs == SelectSeq(a, LAMBDA v : v.t = "string")
    IN  [i \in 1..Len(strs) |-> strs[i].v]

\* Config::from_value
Config_from_value(value) ==
    LET urls == as_array(get(value, "treblleApiUrls"))
        blacklist == as_array(get(value, "routeBlacklist"))
        buffer == get(value, "bufferResponse")
        level == as_str(get(value, "logLevel"))
    IN  [treblle_api_urls |->
             IF Len(urls) = 1 THEN strings_of(urls[1]) ELSE DEFAULT_TREBLLE_API_URLS,
         api_key |-> unwrap_or(as_str(get(value, "apiKey")), ""),
         project_id |-> unwrap_or(as_str(get(value, "projectId")), ""),
         route_blacklist |->
             IF Len(blacklist) = 1 THEN strings_of(blacklist[1]) ELSE <<>>,
         sensitive_keys_regex |->
             unwrap_or(as_str(get(value, "sensitiveKeysRegex")),
                       DEFAULT_SENSITIVE_KEYS_REGEX),
         buffer_response |->
             IF Len(as_bool(buffer)) = 1 THEN as_bool(buffer)[1]
             ELSE IF Len(as_str(buffer)) = 1
             THEN to_lowercase(as_str(buffer)[1]) = <<"t","r","u","e">>
             ELSE FALSE,
         log_level |-> IF Len(level) = 1 THEN LogLevel_from_str(level[1]) ELSE "None",
         root_ca_path |-> as_str(get(value, "rootCaPath"))]

\* Config::fallback
Config_fallback ==
    [treblle_api_urls |-> DEFAULT_TREBLLE_API_URLS,
     api_key |-> "",
     project_id |-> "",
     route_blacklist |-> <<>>,
     sensitive_keys_regex |-> DEFAULT_SENSITIVE_KEYS_REGEX,
     buffer_response |-> FALSE,
     log_level |-> "None",
     root_ca_path |-> None]

\* Config::validate
Config_validate(config) ==
    IF config.api_key = "" THEN Err("Config")
    ELSE IF config.project_id = "" THEN Err("Config")
    ELSE Ok(JNull)

\* Config::get
Config_get(m) ==
    Bind(host_get_config(m, m.in.config), LAMBDA m0 :
    Bind(Try(m0), LAMBDA m1 :
         LET value == serde_json_from_str(m1.r.v)
         IN  IF m1.st # "run" THEN m1
             ELSE IF ~value.ok THEN [m1 EXCEPT !.st = "err", !.err = "Json"]
             ELSE [log(m1, "Debug", "Received config from host")
                      EXCEPT !.r = Ok(Config_from_value(value.v))]))

\* Config::get_or_fallback
Config_get_or_fallback(m) ==
    Bind(Config_get(m), LAMBDA g :
         IF g.st = "run"
         THEN IF ~Config_validate(g.r.v).ok
              THEN [log(g, "Error", "Invalid configuration")
                       EXCEPT !.r = Ok(Config_fallback)]
              ELSE g
         ELSE IF g.st = "err"
         THEN Bind(log([g EXCEPT !.st = "run", !.err = ""], "Error",
                       "Failed to parse config, using fallback"),
                   LAMBDA failed :
                       IF ~Config_validate(Config_fallback).ok
                       THEN [log(failed, "Error", "Fallback configuration is invalid")
                                EXCEPT !.r = Ok(Config_fallback)]
                       ELSE [failed EXCEPT !.r = Ok(Config_fallback)])
         ELSE g)

\* CONFIG, mutated: the configuration is built again at every use
CONFIG_deref_every_use(m) ==
    IF m.st # "run" THEN m
    ELSE Bind(Config_get_or_fallback(m), LAMBDA g :
              IF g.st = "run" THEN [g EXCEPT !.CONFIG = Lazy(g.r.v)] ELSE g)

(***************************************************************************)
(* The statics of lib.rs and their first dereference                       *)
(***************************************************************************)
\* CONFIG: Lazy<Config> = Lazy::new(Config::get_or_fallback)
CONFIG_deref(m) ==
    IF m.st # "run" \/ m.CONFIG.init THEN m
    ELSE Bind(Config_get_or_fallback(m), LAMBDA g :
              IF g.st = "run" THEN [g EXCEPT !.CONFIG = Lazy(g.r.v)] ELSE g)

\* RouteBlacklist::new: every pattern is compiled, an invalid one panics
RouteBlacklist_new(m, blacklist) ==
    IF \E i \in 1..Len(blacklist) : ~Regex_new(blacklist[i]).ok
    THEN [m EXCEPT !.st = "panic", !.err = "Invalid regex pattern in blacklist"]
    ELSE [m EXCEPT !.r = Ok([patterns |->
                                [i \in 1..Len(blacklist) |-> Regex_new(blacklist[i])]])]

\* BLACKLIST: Lazy<RouteBlacklist>
BLACKLIST_deref(m) ==
    IF m.st # "run" \/ m.BLACKLIST.init THEN m
    ELSE Bind(CONFIG_deref(m), LAMBDA c :
              IF c.st # "run" THEN c
              ELSE Bind(RouteBlacklist_new(c, c.CONFIG.v.route_blacklist), LAMBDA b :
                        IF b.st = "run" THEN [b EXCEPT !.BLACKLIST = Lazy(b.r.v)]
                        ELSE b))

\* HTTP_CLIENT: Lazy<WasiHttpClient>
HTTP_CLIENT_deref(m) ==
    IF m.st # "run" \/ m.HTTP_CLIENT.init THEN m
    ELSE Bind(CONFIG_deref(m), LAMBDA c :
              IF c.st # "run" THEN c
              ELSE [c EXCEPT !.HTTP_CLIENT =
                        Lazy(WasiHttpClient_new(c.CONFIG.v.treblle_api_urls))])

\* RouteBlacklist::is_blacklisted
is_blacklisted(blacklist, url) ==
    \E i \in 1..Len(blacklist.patterns) : is_match(blacklist.patterns[i], url)

\* logger::init
logger_init(m) ==
    Bind(CONFIG_deref(m), LAMBDA c :
         IF c.st # "run" THEN c
         ELSE log([c EXCEPT !.LOG_LEVEL = as_i32(c.CONFIG.v.log_level)],
                  "Debug", "Log level set"))

(***************************************************************************)
(* Payload (treblle-wasm-plugin/src/payload.rs, rust-http-wasm/src/utils.rs*)
(* and schema.rs)                                                          *)
(***************************************************************************)
EmptyObject == JObject([key \in {} |-> JNull])

\* parse_json_body, mutated: bytes that do not parse become a JSON string
parse_json_body_or_string(body) ==
    IF ~body.utf8 THEN JNull
    ELSE CASE body.head = <<"{", "}">> -> JObject([key \in {} |-> JNull])
           [] body.head = <<"{", "\"", "P", "w", "d", "\"", ":", "\"", "s", "\"", "}">> ->
                  JObject([key \in { <<"P","w","d">> } |-> JString("s")])
           [] body.head = <<"[", "]">> -> JArray(<<>>)
           [] OTHER -> JString(body.head)

\* serde_json::from_slice(body).unwrap_or(Value::Null), as a table of the
\* documents the model uses; white space after the document is allowed
parse_json_body(body) ==
    IF ~body.utf8 THEN JNull
    ELSE CASE body.head = <<"{", "}">> -> EmptyObject
           [] body.head = <<"{", "\"", "P", "w", "d", "\"", ":", "\"", "s", "\"", "}">> ->
                  JObject([key \in { <<"P","w","d">> } |-> JString("s")])
           [] body.head = <<"[", "]">> -> JArray(<<>>)
           [] OTHER -> JNull

X_FORWARDED_FOR == <<"X","-","F","o","r","w","a","r","d","e","d","-","F","o","r">>
X_REAL_IP == <<"X","-","R","e","a","l","-","I","P">>
USER_AGENT == <<"U","s","e","r","-","A","g","e","n","t">>

\* ip.split(',').next().unwrap_or("")
first_segment(s) ==
    LET commas == { i \in 1..Len(s) : s[i] = "," }
    IN  IF commas = {} THEN s
        ELSE SubSeq(s, 1, (CHOOSE i \in commas : \A j \in commas : i <= j) - 1)

\* str::trim, for spaces
trim(s) ==
    LET inked == { i \in 1..Len(s) : s[i] # " " }
    IN  IF inked = {} THEN <<>>
        ELSE SubSeq(s, CHOOSE i \in inked : \A j \in inked : i <= j,
                       CHOOSE i \in inked : \A j \in inked : i >= j)

\* extract_ip_from_headers, mutated: X-Real-IP is looked up first
extract_ip_real_ip_first(headers) ==
    IF X_REAL_IP \in DOMAIN headers
    THEN Some(trim(first_segment(headers[X_REAL_IP])))
    ELSE IF X_FORWARDED_FOR \in DOMAIN headers
    THEN Some(trim(first_segment(headers[X_FORWARDED_FOR])))
    ELSE None

\* extract_ip_from_headers
extract_ip_from_headers(headers) ==
    IF X_FORWARDED_FOR \in DOMAIN headers
    THEN Some(trim(first_segment(headers[X_FORWARDED_FOR])))
    ELSE IF X_REAL_IP \in DOMAIN headers
    THEN Some(trim(first_segment(headers[X_REAL_IP])))
    ELSE None

\* utils::parse_request, mutated: the record is built from the headers as
\* they were read, before redaction
parse_request_unredacted(method, uri, headers, body, config) ==
    LET masked_body == mask_sensitive_data(parse_json_body(body),
                                           config.sensitive_keys_regex)
        masked_headers == mask_sensitive_headers(headers, config.sensitive_keys_regex)
    IN  IF ~masked_body.ok THEN Err(masked_body.err)
        ELSE IF ~masked_headers.ok THEN Err(masked_headers.err)
        ELSE Ok([timestamp |-> "now",
                 ip |-> unwrap_or(extract_ip_from_headers(headers), "Unknown"),
                 url |-> uri,
                 user_agent |-> IF USER_AGENT \in DOMAIN headers
                                THEN headers[USER_AGENT] ELSE <<>>,
                 method |-> method,
                 headers |-> headers,
                 body |-> Some(masked_body.v)])

\* utils::parse_request
parse_request(method, uri, headers, body, config) ==
    LET masked_body == mask_sensitive_data(parse_json_body(body),
                                           config.sensitive_keys_regex)
        masked_headers == mask_sensitive_headers(headers, config.sensitive_keys_regex)
    IN  IF ~masked_body.ok THEN Err(masked_body.err)
        ELSE IF ~masked_headers.ok THEN Err(masked_headers.err)
        ELSE Ok([timestamp |-> "now",
                 ip |-> unwrap_or(extract_ip_from_headers(headers), "Unknown"),
                 url |-> uri,
                 user_agent |-> IF USER_AGENT \in DOMAIN headers
                                THEN headers[USER_AGENT] ELSE <<>>,
                 method |-> method,
                 headers |-> masked_headers.v,
                 body |-> Some(masked_body.v)])

\* utils::parse_response
parse_response(status, headers, body, config) ==
    LET masked_body == mask_sensitive_data(parse_json_body(body),
                                           config.sensitive_keys_regex)
        masked_headers == mask_sensitive_headers(headers, config.sensitive_keys_regex)
    IN  IF ~masked_body.ok THEN Err(masked_body.err)
        ELSE IF ~masked_headers.ok THEN Err(masked_headers.err)
        ELSE Ok([headers |-> masked_headers.v,
                 code |-> status,
                 size |-> BLen(body),
                 load_time |-> 0,
                 body |-> Some(masked_body.v)])

\* PayloadData::default()
PayloadData_default ==
    [server |-> [ip |-> "", protocol |-> <<>>],
     language |-> [name |-> "", version |-> ""],
     request |-> [timestamp |-> "", ip |-> "", url |-> <<>>, user_agent |-> <<>>,
                  method |-> <<>>, headers |-> <<>>, body |-> None],
     response |-> [headers |-> <<>>, code |-> 0, size |-> 0, load_time |-> 0,
                   body |-> None],
     errors |-> <<>>]

\* Payload::new
Payload_new(config) ==
    [api_key |-> config.api_key,
     project_id |-> config.project_id,
     version |-> "0.6",
     sdk |-> "rust-wasm",
     data |-> PayloadData_default]

\* Payload::update_request_info: a failed parse_request panics (expect)
update_request_info(m, payload, method, url, headers, body) ==
    LET request == parse_request(method, url, headers, body, m.CONFIG.v)
    IN  IF m.st # "run" THEN m
        ELSE IF ~request.ok
        THEN [m EXCEPT !.st = "panic", !.err = "Error parsing request"]
        ELSE [m EXCEPT !.r = Ok([payload EXCEPT !.data.request = request.v])]

\* Payload::update_response_info: a failed parse_response panics (expect)
update_response_info(m, payload, status, headers, body) ==
    LET response == parse_response(status, headers, body, m.CONFIG.v)
    IN  IF m.st # "run" THEN m
        ELSE IF ~response.ok
        THEN [m EXCEPT !.st = "panic", !.err = "Error parsing response"]
        ELSE [m EXCEPT !.r = Ok([payload EXCEPT !.data.response = response.v])]

\* Payload::update_language_info
update_language_info(payload) ==
    [payload EXCEPT !.data.language = [name |-> "rust", version |-> "pkg"]]

\* Payload::update_server_info
update_server_info(payload, protocol) ==
    [payload EXCEPT !.data.server = [ip |-> "Unknown", protocol |-> protocol]]

\* Payload::add_error
add_error(payload, error) ==
    [payload EXCEPT !.data.errors = Append(@, error)]

\* u32::to_string, usize::to_string: the decimal digits, most significant
\* first, without leading zeros
DecimalDigits == << "0", "1", "2", "3", "4", "5", "6", "7", "8", "9" >>
RECURSIVE to_string(_)
to_string(n) ==
    IF n < 10 THEN << DecimalDigits[n + 1] >>
    ELSE to_string(n \div 10) \o << DecimalDigits[(n % 10) + 1] >>

\* to_json, mutated: the response code and size are written as numbers
to_json_numeric(payload) ==
    Ok(<< <<"api_key", payload.api_key>>,
          <<"project_id", payload.project_id>>,
          <<"version", payload.version>>,
          <<"sdk", payload.sdk>>,
          <<"data", [payload.data EXCEPT !.response.code = JNumber(@),
                                         !.response.size = JNumber(@)]>> >>)


\* Payload::to_json: the document is kept as the sequence of its top-level
\* members; the response code and size are written as strings
to_json(payload) ==
    Ok(<< <<"api_key", payload.api_key>>,
          <<"project_id", payload.project_id>>,
          <<"version", payload.version>>,
          <<"sdk", payload.sdk>>,
          <<"data", [payload.data EXCEPT !.response.code = JString(to_string(@)),
                                         !.response.size = JString(to_string(@))]>> >>)
(***************************************************************************)
(* The handler (treblle-wasm-plugin/src/http_handler.rs)                   *)
(***************************************************************************)
\* map_err, mutated: the error is converted without an Error line
map_err_silent(m, message, error) ==
    IF m.st = "run" /\ ~m.r.ok THEN [m EXCEPT !.r = Err(error)] ELSE m

\* .map_err(|e| { log(LogLevel::Error, ..); TreblleError::.. })
map_err(m, message, error) ==
    IF m.st = "run" /\ ~m.r.ok
    THEN [log(m, "Error", message) EXCEPT !.r = Err(error)]
    ELSE m

\* HttpHandler::get_uri
get_uri(m) ==
    Bind(host_get_uri(m, m.in.uri), LAMBDA m1 :
         map_err(m1, "Failed to get URI", "HostFunction"))

\* HttpHandler::get_content_type
get_content_type(m) ==
    Bind(host_get_header_values(m, REQUEST_KIND, HEADER_CONTENT_TYPE,
                                m.in.content_type),
         LAMBDA m1 : map_err(m1, "Failed to get Content-Type", "HostFunction"))

\* HttpHandler::get_method
get_method(m) ==
    Bind(host_get_method(m, m.in.method), LAMBDA m1 :
         map_err(m1, "Failed to get HTTP method", "HostFunction"))

\* what the host answers for the values of one header: the request's
\* Content-Type is the value already given to get_content_type, a header
\* the transaction does not carry has no values
ValuesReply(m, header_kind, name) ==
    LET values == m.in.headers[header_kind].values
    IN  IF header_kind = REQUEST_KIND /\ name = HEADER_CONTENT_TYPE
        THEN m.in.content_type
        ELSE IF name \in DOMAIN values THEN values[name]
        ELSE Reply(0, <<>>, TRUE)

RECURSIVE header_loop(_, _, _, _)
\* the loop of get_headers: a header whose values cannot be read is left out
header_loop(m, header_kind, names, headers) ==
    IF m.st # "run" THEN m
    ELSE IF names = <<>> THEN [m EXCEPT !.r = Ok(headers)]
    ELSE Bind(host_get_header_values(m, header_kind, Head(names),
                                     ValuesReply(m, header_kind, Head(names))),
              LAMBDA v :
                  IF v.st # "run" THEN v
                  ELSE header_loop(v, header_kind, Tail(names),
                                   IF v.r.ok
                                   THEN [key \in DOMAIN headers \cup {Head(names)} |->
                                            IF key = Head(names) THEN v.r.v
                                            ELSE headers[key]]
                                   ELSE headers))

\* HttpHandler::get_headers
get_headers(m, header_kind) ==
    Bind(log(m, "Debug", "Starting get_headers"), LAMBDA m1 :
    Bind(host_get_header_names(m1, header_kind, m1.in.headers[header_kind].names),
         LAMBDA n :
    Bind(map_err(n, "Failed to get header names", "HostFunction"), LAMBDA e :
    Bind(Try(e), LAMBDA m2 :
         IF m2.st # "run" THEN m2
         ELSE Bind(header_loop(m2, header_kind,
                               SelectSeq(m2.r.v, LAMBDA s : s # <<>>), <<>>),
                   LAMBDA m3 :
                       IF m3.st # "run" THEN m3
                       ELSE [log(m3, "Debug", "Total headers processed")
                                EXCEPT !.r = m3.r])))))

\* HttpHandler::read_body
read_body(m, body_kind) ==
    Bind(host_read_body(m, body_kind, m.in.body[body_kind]), LAMBDA m1 :
         map_err(m1, "Failed to read body", "HostFunction"))

\* HttpHandler::write_body
write_body(m, body_kind, body) ==
    Bind(host_write_body(m, body_kind, body), LAMBDA m1 :
         map_err(m1, "Failed to write body", "HostFunction"))

\* HttpHandler::update_payload_server_info
update_payload_server_info(m, payload) ==
    Bind(host_get_protocol_version(m, m.in.protocol), LAMBDA p :
    Bind(map_err(p, "Failed to get protocol version", "HostFunction"), LAMBDA e :
    Bind(Try(e), LAMBDA m1 :
         IF m1.st # "run" THEN m1
         ELSE [m1 EXCEPT !.r = Ok(update_server_info(payload, m1.r.v))])))

\* HttpHandler::update_payload
update_payload(m, payload, method, uri, headers, body) ==
    Bind(update_request_info(m, payload, method, uri, headers, body), LAMBDA m1 :
         IF m1.st # "run" THEN m1
         ELSE update_payload_server_info(m1, update_language_info(m1.r.v)))

\* HttpHandler::create_error_info, mutated: the entry names the request as
\* its source
create_error_info_from_request(status_code) ==
    [source |-> "request", error_type |-> "HTTP Error",
     message |-> <<"HTTP status code: ", status_code>>, file |-> "", line |-> 0]

\* HttpHandler::create_error_info
create_error_info(status_code) ==
    [source |-> "response", error_type |-> "HTTP Error",
     message |-> <<"HTTP status code: ", status_code>>, file |-> "", line |-> 0]

\* the lines WasiHttpClient::post logs, through logger::log
log_all(m, lines) ==
    [m EXCEPT !.log = @ \o SelectSeq(lines, LAMBDA l : l[1] >= m.LOG_LEVEL)]

\* a POST as the invocation records it: the attempt, and the number of host
\* functions the invocation had called when the client was handed the payload
PostedAfter(entry, calls) ==
    [url |-> entry.url, stream |-> entry.stream, reused |-> entry.reused,
     head |-> entry.head, body |-> entry.body, result |-> entry.result,
     after |-> calls]

\* HttpHandler::send_to_treblle
send_to_treblle(m, payload) ==
    IF m.st # "run" THEN m
    ELSE
    Bind(log(m, "Debug", "Preparing to send data to Treblle API"), LAMBDA m1 :
    Bind(to_json(payload), LAMBDA json :
    Bind(Try([m1 EXCEPT !.r = json]), LAMBDA t :
    Bind(log(t, "Debug", "Payload JSON length"), LAMBDA m2 :
    Bind(HTTP_CLIENT_deref(m2), LAMBDA m3 :
         IF m3.st # "run" THEN m3
         ELSE IF ~m3.in.net.asked THEN [m3 EXCEPT !.st = "needs", !.need = "post"]
         ELSE
    Bind(WasiPost(m3.HTTP_CLIENT.v, m3.CLIENT_CONFIG, m3.in.now, json.v,
                  m3.CONFIG.v.api_key, m3.in.net), LAMBDA p :
    Bind([log_all(m3, p.logs) EXCEPT !.HTTP_CLIENT = Lazy(p.client),
                                     !.CLIENT_CONFIG = p.tls,
                                     !.posts = Append(@, PostedAfter(p.entry, Len(m3.calls))),
                                     !.r = p.result], LAMBDA m4 :
         IF p.panic
         THEN [m4 EXCEPT !.st = "panic",
                         !.err = "attempt to calculate the remainder with a divisor of zero"]
         ELSE
    Bind(map_err(m4, "Failed to send data to Treblle API", "Http"), LAMBDA e :
    Bind(Try(e), LAMBDA m5 :
         log(m5, "Debug", "Data sent successfully to Treblle API"))))))))))
\* HttpHandler::process_request
process_request(m) ==
    Bind(log(m, "Debug", "Processing request..."), LAMBDA m1 :
    Bind(get_uri(m1), LAMBDA u :
    Bind(Try(u), LAMBDA m2 :
    Bind(BLACKLIST_deref(m2), LAMBDA m3 :
         IF m3.st # "run" THEN m3
         ELSE IF is_blacklisted(m3.BLACKLIST.v, m2.r.v)
         THEN [log(m3, "Info", "URL is blacklisted, skipping Treblle API")
                  EXCEPT !.st = "ok"]
         ELSE
    Bind(get_content_type(m3), LAMBDA c :
    Bind(Try(c), LAMBDA m4 :
         IF m4.st # "run" THEN m4
         ELSE IF ~is_json(m4.r.v)
         THEN [log(m4, "Info", "Non-JSON request, skipping Treblle API")
                  EXCEPT !.st = "ok"]
         ELSE
    Bind(get_method(m4), LAMBDA g :
    Bind(Try(g), LAMBDA m5 :
    Bind(get_headers(m5, REQUEST_KIND), LAMBDA h :
    Bind(Try(h), LAMBDA m6 :
    Bind(read_body(m6, REQUEST_KIND), LAMBDA b :
    Bind(Try(b), LAMBDA m7 :
    Bind(write_body(m7, REQUEST_KIND, m7.r.v), LAMBDA w :
    Bind(Try(w), LAMBDA m8 :
         IF m8.st # "run" THEN m8
         ELSE
    Bind(update_payload(m8, Payload_new(m8.CONFIG.v), m5.r.v, m2.r.v, m6.r.v,
                        m7.r.v), LAMBDA p :
    Bind(Try(p), LAMBDA m9 :
    Bind(send_to_treblle(m9, m9.r.v), LAMBDA s :
    Bind(Try(s), LAMBDA m10 :
    Bind(log(m10, "Debug", "Request processing completed successfully"),
         LAMBDA m11 :
         IF m11.st = "run" THEN [m11 EXCEPT !.st = "ok"] ELSE m11)))))))))))))))))))

\* HttpHandler::process_response
process_response(m, is_error) ==
    Bind(CONFIG_deref(m), LAMBDA c :
         IF c.st # "run" THEN c
         ELSE IF ~c.CONFIG.v.buffer_response
         THEN [log(c, "Info", "Not processing response, buffer_response is not enabled")
                  EXCEPT !.st = "ok"]
         ELSE
    Bind(log(c, "Debug", "Processing response..."), LAMBDA m1 :
    Bind(get_headers(m1, RESPONSE_KIND), LAMBDA h :
    Bind(Try(h), LAMBDA m2 :
    Bind(read_body(m2, RESPONSE_KIND), LAMBDA b :
    Bind(Try(b), LAMBDA m3 :
    Bind(host_get_status_code(m3, m3.in.status), LAMBDA m4 :
    Bind(write_body(m4, RESPONSE_KIND, m3.r.v), LAMBDA w :
    Bind(Try(w), LAMBDA m5 :
         IF m5.st # "run" THEN m5
         ELSE
    Bind(update_response_info(m5, Payload_new(m5.CONFIG.v), m4.r.v, m2.r.v,
                              m3.r.v), LAMBDA m6 :
         IF m6.st # "run" THEN m6
         ELSE
    Bind(update_payload_server_info(m6, m6.r.v), LAMBDA p :
    Bind(Try(p), LAMBDA m7 :
         IF m7.st # "run" THEN m7
         ELSE
    Bind(send_to_treblle(m7, IF is_error # 0 \/ m4.r.v >= 400
                             THEN add_error(m7.r.v, create_error_info(m4.r.v))
                             ELSE m7.r.v), LAMBDA s :
    Bind(Try(s), LAMBDA m8 :
    Bind(log(m8, "Debug", "Response processing completed successfully"),
         LAMBDA m9 :
         IF m9.st = "run" THEN [m9 EXCEPT !.st = "ok"] ELSE m9)))))))))))))))

(***************************************************************************)
(* The entry points (treblle-wasm-plugin/src/lib.rs)                       *)
(***************************************************************************)
\* if let Err(e) = .. { log(LogLevel::Error, ..) }: the entry point goes on
\* after a pipeline that returned Ok or Err
if_let_Err(p, message) ==
    IF p.st = "err" THEN log([p EXCEPT !.st = "run"], "Error", message)
    ELSE IF p.st = "ok" THEN [p EXCEPT !.st = "run"]
    ELSE p

\* Guest::handle_request
handle_request(m) ==
    Bind(logger_init(m), LAMBDA l :
    Bind(HTTP_CLIENT_deref(l), LAMBDA m1 :
    Bind(log(m1, "Debug", "Initializing request handler!"), LAMBDA d :
    Bind(log(d, "Info", "Handling request in WASM module"), LAMBDA i :
    Bind(log(i, "Info", "Buffer response is set to"), LAMBDA m2 :
    Bind(IF m2.st = "run" /\ m2.CONFIG.v.buffer_response
         THEN Bind(host_enable_features(m2, FEATURE_BUFFER_RESPONSE), LAMBDA f :
                   log(f, "Info", "Enabled features"))
         ELSE m2, LAMBDA m3 :
    Bind(process_request(m3), LAMBDA p :
    Bind(if_let_Err(p, "Error processing request"), LAMBDA m4 :
    Bind(log(m4, "Info",
             "Letting Traefik continue processing the request with next middleware"),
         LAMBDA m5 :
         IF m5.st = "run" THEN [m5 EXCEPT !.st = "returned", !.r = Ok(1)]
         ELSE m5)))))))))

\* Guest::handle_response
handle_response(m, is_error) ==
    Bind(logger_init(m), LAMBDA l :
    Bind(log(l, "Debug", "Initializing response handler"), LAMBDA d :
    Bind(log(d, "Info", "Handling response in WASM module"), LAMBDA m1 :
    Bind(process_response(m1, is_error), LAMBDA p :
    Bind(if_let_Err(p, "Error processing response"), LAMBDA m2 :
    Bind(log(m2, "Info", "Finished processing response"), LAMBDA m3 :
         IF m3.st = "run" THEN [m3 EXCEPT !.st = "returned", !.r = Ok(0)]
         ELSE m3))))))

(***************************************************************************)
(* The host: the configuration it delivers and the answers it gives while  *)
(* an entry point runs.  An answer is chosen when the guest asks for it.   *)
(***************************************************************************)
HostText(t) == Reply(Len(t), t, TRUE)
HostError == Reply(-1, <<>>, TRUE)
HostTooLong == Reply(READ_BUF_SIZE + 1, <<>>, TRUE)
HostNotUtf8 == Reply(1, <<"?">>, FALSE)

Pwd == <<"P","w","d">>

\* the configuration documents
ConfigBase ==
    [key \in {"apiKey", "projectId"} |->
        IF key = "apiKey" THEN JString("key") ELSE JString("proj")]
ConfigFull ==
    ("routeBlacklist" :> JArray(<< JString("^/internal/.*$") >>))
    @@ ("sensitiveKeysRegex" :> JString("(?i)pwd"))
    @@ ("bufferResponse" :> JBool(TRUE))
    @@ ("logLevel" :> JString(<<"d","e","b","u","g">>))
    @@ ConfigBase
ConfigDocs ==
    { JObject(ConfigBase),
      JObject(ConfigFull),
      JObject(("sensitiveKeysRegex" :> JString("[invalid"))
              @@ ("bufferResponse" :> JString(<<"T","r","u","e">>))
              @@ ("logLevel" :> JString(<<"E","R","R","O","R">>))
              @@ ConfigBase),
      JObject(("routeBlacklist" :> JArray(<< JString("[invalid") >>)) @@ ConfigBase),
      JObject(("treblleApiUrls" :> JArray(<<>>)) @@ ConfigBase),
      JObject(("apiKey" :> JString("")) @@ ConfigFull),
      NotJson }
HostConfigs ==
    { Reply(READ_BUF_SIZE \div 4, doc, TRUE) : doc \in ConfigDocs }
    \cup { Reply(-1, NotJson, TRUE),
           Reply(READ_BUF_SIZE + 1, JObject(ConfigBase), TRUE) }

UriReplies ==
    { HostText(<<"/","u","s","e","r","s">>),
      HostText(<<"/","i","n","t","e","r","n","a","l","/","x">>),
      HostError, HostTooLong, HostNotUtf8 }

ContentTypeReplies ==
    { HostText(<<>>),
      HostText(<<"t","e","x","t","/","h","t","m","l">>),
      HostText(<<"a","p","p","l","i","c","a","t","i","o","n","/","j","s","o","n">>),
      HostText(<<"A","p","p","l","i","c","a","t","i","o","n","/","J","S","O","N">>),
      HostError, HostTooLong }

MethodReplies == { HostText(<<"P","O","S","T">>), HostError }

ProtocolReplies == { HostText(<<"H","T","T","P","/","1",".","1">>), HostError }

\* the header names of a transaction, and the values of each
RECURSIVE JoinedLen(_)
JoinedLen(names) ==
    IF names = <<>> THEN 0
    ELSE Len(Head(names)) + (IF Len(names) > 1 THEN 1 ELSE 0) + JoinedLen(Tail(names))
NamesReply(names) == Reply(JoinedLen(names), names, TRUE)
NoHeaders == [names |-> NotAsked, values |-> <<>>]
RequestHeaderTables ==
    { [names |-> HostError, values |-> <<>>],
      [names |-> NamesReply(<<HEADER_CONTENT_TYPE, Pwd, X_FORWARDED_FOR>>),
       values |-> (Pwd :> HostText(<<"s">>))
                  @@ (X_FORWARDED_FOR :> HostText(<<"1", ",", " ", "2">>))],
      [names |-> NamesReply(<<HEADER_CONTENT_TYPE, Pwd>>),
       values |-> (Pwd :> HostError)] }
ResponseHeaderTables ==
    { [names |-> HostError, values |-> <<>>],
      [names |-> NamesReply(<<Pwd>>), values |-> (Pwd :> HostText(<<"s">>))] }

\* the body the host holds, and whether it fails the read
NoBodyInput == [asked |-> FALSE, bytes |-> Bytes(<<>>, 0, TRUE), fail |-> FALSE]
BodyInputs ==
    { [asked |-> TRUE, bytes |-> b, fail |-> FALSE] :
          b \in { Bytes(<<"{", "\"", "P", "w", "d", "\"", ":", "\"", "s", "\"", "}">>,
                        0, TRUE),
                  Bytes(<<"x">>, 0, TRUE),
                  Bytes(<<"{", "}">>, READ_BUF_SIZE - 1, TRUE),
                  Bytes(<<"?">>, 0, FALSE) } }
    \cup { [asked |-> TRUE, bytes |-> Bytes(<<"{", "}">>, 0, TRUE), fail |-> TRUE] }

\* the response status: the last one below 400, and 400
StatusCodes == { 399, 400 }

\* the bits the host enables when asked for response buffering
FeatureGrants == { 0, FEATURE_BUFFER_RESPONSE }

NoNet == [asked |-> FALSE, connect |-> "ok", write |-> "ok"]
NetInputs ==
    { [asked |-> TRUE, connect |-> "ok", write |-> "ok"],
      [asked |-> TRUE, connect |-> "refused", write |-> "ok"],
      [asked |-> TRUE, connect |-> "ok", write |-> "timeout"],
      [asked |-> TRUE, connect |-> "ok", write |-> "io"] }

Kinds == { REQUEST_KIND, RESPONSE_KIND }

\* nothing asked yet
NoInput(config, t) ==
    [config |-> config, now |-> t,
     uri |-> NotAsked, content_type |-> NotAsked, method |-> NotAsked,
     headers |-> [k \in Kinds |-> NoHeaders],
     body |-> [k \in Kinds |-> NoBodyInput],
     protocol |-> NotAsked, status |-> -1, grant |-> -1, net |-> NoNet]

(***************************************************************************)
(* The guest under the host: Spec runs handle_request and handle_response  *)
(* for one transaction after another against one guest instance.           *)
(***************************************************************************)
MaxSends == 2
MaxNegotiations == 2

NoReturn == [entry |-> "none", outcome |-> "none", value |-> 0, error |-> ""]

Init ==
    /\ GuestAtRest
    /\ hostConfig \in HostConfigs
    /\ txn = [phase |-> "none", is_error |-> 0, in |-> NoInput(hostConfig, 0)]
    /\ hostBody = [k \in Kinds |-> NoBody]
    /\ features = <<>>
    /\ now = 0
    /\ ret = NoReturn
    /\ hostCalls = <<>>
    /\ hostLog = <<>>
    /\ posts = <<>>
    /\ sendLog = <<>>
    /\ arg = "none" /\ res = "none"

\* the guest as the statics left it, at the start of an entry point
StartMachine(input) ==
    Machine(CONFIG, BLACKLIST, HTTP_CLIENT, CLIENT_CONFIG, LOG_LEVEL,
            [k \in Kinds |-> NoBody], input)

RunRequest(input) == handle_request(StartMachine(input))
RunResponse(input, is_error) == handle_response(StartMachine(input), is_error)

\* the answers the host may give when the run stops for host function `fn'
Asked(run, fn, answers, none) ==
    Bind(run, LAMBDA m : IF m.st = "needs" /\ m.need = fn THEN answers ELSE {none})

SendsLeft ==
    IF HTTP_CLIENT.init THEN HTTP_CLIENT.v.current_url_index < MaxSends ELSE TRUE

\* the entry point has run to its end, or has trapped
Finish(m, entry, is_error, input) ==
    /\ guest' = IF m.st = "panic" THEN "trapped" ELSE "running"
    /\ CONFIG' = m.CONFIG
    /\ BLACKLIST' = m.BLACKLIST
    /\ HTTP_CLIENT' = m.HTTP_CLIENT
    /\ CLIENT_CONFIG' = m.CLIENT_CONFIG
    /\ LOG_LEVEL' = m.LOG_LEVEL
    /\ txn' = [phase |-> entry, is_error |-> is_error, in |-> input]
    /\ hostBody' = m.body
    /\ features' = features \o m.features
    /\ ret' = [entry |-> entry,
               outcome |-> IF m.st = "returned" THEN "returned" ELSE "trapped",
               value |-> IF m.st = "returned" THEN m.r.v ELSE 0,
               error |-> m.err]
    /\ hostCalls' = m.calls
    /\ hostLog' = m.log
    /\ posts' = m.posts
    /\ UNCHANGED <<hostConfig, now, sendLog, pureVars>>

HandleRequest ==
    /\ guest = "running"
    /\ txn.phase = "none"
    /\ SendsLeft
    /\ Len(features) < MaxNegotiations
    /\ \E n0 \in {NoInput(hostConfig, now)} :
       \E grant \in Asked(RunRequest(n0), "enable_features", FeatureGrants, -1) :
       \E i0 \in {[n0 EXCEPT !.grant = grant]} :
       \E uri \in Asked(RunRequest(i0), "get_uri", UriReplies, NotAsked) :
       \E i1 \in {[i0 EXCEPT !.uri = uri]} :
       \E content_type \in Asked(RunRequest(i1), "get_header_values",
                                 ContentTypeReplies, NotAsked) :
       \E i2 \in {[i1 EXCEPT !.content_type = content_type]} :
       \E method \in Asked(RunRequest(i2), "get_method", MethodReplies, NotAsked) :
       \E i3 \in {[i2 EXCEPT !.method = method]} :
       \E headers \in Asked(RunRequest(i3), "get_header_names",
                            RequestHeaderTables, NoHeaders) :
       \E i4 \in {[i3 EXCEPT !.headers[REQUEST_KIND] = headers]} :
       \E body \in Asked(RunRequest(i4), "read_body", BodyInputs, NoBodyInput) :
       \E i5 \in {[i4 EXCEPT !.body[REQUEST_KIND] = body]} :
       \E protocol \in Asked(RunRequest(i5), "get_protocol_version",
                             ProtocolReplies, NotAsked) :
       \E i6 \in {[i5 EXCEPT !.protocol = protocol]} :
       \E net \in Asked(RunRequest(i6), "post", NetInputs, NoNet) :
       \E i7 \in {[i6 EXCEPT !.net = net]} :
       \E m \in {RunRequest(i7)} :
          Finish(m, "handle_request", 0, i7)

HandleResponse ==
    /\ guest = "running"
    /\ txn.phase = "forwarded"
    /\ SendsLeft
    /\ \E is_error \in {0, 1} :
       \E i0 \in {[NoInput(hostConfig, now) EXCEPT !.uri = txn.in.uri]} :
       \E headers \in Asked(RunResponse(i0, is_error), "get_header_names",
                            ResponseHeaderTables, NoHeaders) :
       \E i1 \in {[i0 EXCEPT !.headers[RESPONSE_KIND] = headers]} :
       \E body \in Asked(RunResponse(i1, is_error), "read_body", BodyInputs,
                         NoBodyInput) :
       \E i2 \in {[i1 EXCEPT !.body[RESPONSE_KIND] = body]} :
       \E status \in Asked(RunResponse(i2, is_error), "get_status_code",
                           StatusCodes, -1) :
       \E i3 \in {[i2 EXCEPT !.status = status]} :
       \E protocol \in Asked(RunResponse(i3, is_error), "get_protocol_version",
                             ProtocolReplies, NotAsked) :
       \E i4 \in {[i3 EXCEPT !.protocol = protocol]} :
       \E net \in Asked(RunResponse(i4, is_error), "post", NetInputs, NoNet) :
       \E i5 \in {[i4 EXCEPT !.net = net]} :
       \E m \in {RunResponse(i5, is_error)} :
          Finish(m, "handle_response", is_error, i5)

\* the host takes the transaction on: after handle_request it forwards the
\* request and will call handle_response, after handle_response the
\* transaction is over
HostProceeds ==
    /\ guest = "running"
    /\ ret.entry # "none"
    /\ txn' = IF txn.phase = "handle_request"
              THEN [phase |-> "forwarded", is_error |-> 0,
                    in |-> [NoInput(hostConfig, now) EXCEPT !.uri = txn.in.uri]]
              ELSE [phase |-> "none", is_error |-> 0, in |-> NoInput(hostConfig, now)]
    /\ hostBody' = [k \in Kinds |-> NoBody]
    /\ ret' = NoReturn
    /\ hostCalls' = <<>>
    /\ hostLog' = <<>>
    /\ posts' = <<>>
    /\ UNCHANGED <<guestVars, hostConfig, features, now, sendLog, pureVars>>

Next == HandleRequest \/ HandleResponse \/ HostProceeds

Spec == Init /\ [][Next]_vars

(***************************************************************************)
(* Properties of the entry points                                          *)
(***************************************************************************)
APPLICATION_JSON == <<"a","p","p","l","i","c","a","t","i","o","n","/","j","s","o","n">>

\* the host answered, with a text that fits the guest buffer
Answered(reply) ==
    reply.asked /\ reply.len >= 0 /\ reply.len <= READ_BUF_SIZE /\ reply.utf8

\* the lengths the host reported through the guest buffer in an invocation
LengthsOf(input) ==
    { input.uri.len, input.content_type.len, input.method.len, input.protocol.len }
    \cup { input.headers[k].names.len : k \in Kinds }

CalledFn(fn) == \E i \in 1..Len(hostCalls) : hostCalls[i].fn = fn

CallsOf(fn, kind) ==
    { i \in 1..Len(hostCalls) : hostCalls[i].fn = fn /\ hostCalls[i].kind = kind }

\* the POSTs that went out to the collector and were written in full
PostsSent == { i \in 1..Len(posts) : posts[i].result = "Ok" }

\* C1: every invocation of handle_request completes and returns the integer
\* 1, whatever the host answered and whatever failed inside.
C1_HandleRequestReturnsOne ==
    ret.entry = "handle_request" => ret.outcome = "returned" /\ ret.value = 1

\* C2: once CONFIG, BLACKLIST and HTTP_CLIENT are initialized (with at least
\* one endpoint), an invocation of handle_request whose host answers all fit
\* the buffer never aborts the guest: whatever fails in the pipeline (redaction with a
\* sensitive_keys_regex that does not compile, serialization, the send)
\* comes back to the entry point as an error, and the entry point returns.
C2_RecoverableFailuresReturn ==
    [][(/\ CONFIG.init /\ BLACKLIST.init /\ HTTP_CLIENT.init
        /\ HTTP_CLIENT.v.treblle_api_urls # <<>>
        /\ ret.entry = "none" /\ ret'.entry = "handle_request"
        /\ \A len \in LengthsOf(txn'.in) : len <= READ_BUF_SIZE)
       => ret'.outcome = "returned"]_vars

\* C3: when get_uri, get_method or get_header_values reports a length
\* larger than the guest buffer, handle_request logs the failure and still
\* returns 1 ("continue").
C3_BufferTooSmallIsFailure ==
    (/\ ret.entry = "handle_request"
     /\ \E r \in { txn.in.uri, txn.in.content_type, txn.in.method } :
            r.asked /\ r.len > READ_BUF_SIZE)
    => (/\ ret.outcome = "returned" /\ ret.value = 1
        /\ \E i \in 1..Len(hostLog) : hostLog[i][1] = LOG_LEVEL_ERROR)

\* C4: whenever an entry point has read a body of some kind from the host,
\* it has called write_body for that kind with exactly the bytes the host
\* held, and the host holds those bytes again when the entry point is over.
C4_BodyWrittenBack ==
    \A k \in Kinds :
        (/\ ret.entry # "none"
         /\ txn.in.body[k].asked /\ ~txn.in.body[k].fail /\ txn.in.body[k].bytes.utf8)
        => (/\ \E i \in CallsOf("write_body", k) :
                   hostCalls[i].data = txn.in.body[k].bytes
            /\ hostBody[k] = Held(txn.in.body[k].bytes))

\* C5: when the URI of the transaction is matched by a configured blacklist
\* pattern, neither handle_request nor handle_response sends a POST to the
\* collector.
C5_BlacklistedNeverPosted ==
    (/\ ret.entry # "none"
     /\ BLACKLIST.init
     /\ Answered(txn.in.uri)
     /\ is_blacklisted(BLACKLIST.v, txn.in.uri.data))
    => PostsSent = {}

\* C6: in handle_request, when the Content-Type value the host answered
\* (empty when the header is absent) does not contain application/json
\* compared case-insensitively, no POST is attempted and the method, the
\* header names and the body are not read; when it does contain it, the
\* pipeline goes on to read the method.
C6_JsonGate ==
    (ret.entry = "handle_request" /\ Answered(txn.in.content_type))
    => IF contains(to_lowercase(txn.in.content_type.data), APPLICATION_JSON)
       THEN CalledFn("get_method")
       ELSE /\ posts = <<>>
            /\ ~CalledFn("get_method")
            /\ ~CalledFn("get_header_names")
            /\ ~CalledFn("read_body")

\* a request with Content-Type Application/JSON went through the gate and
\* its payload was posted
C6_Witness ==
    /\ ret.entry = "handle_request"
    /\ txn.in.content_type.data
           = <<"A","p","p","l","i","c","a","t","i","o","n","/","J","S","O","N">>
    /\ PostsSent # {}


\* C11: over any sequence of handle_request and handle_response invocations
\* enable_features is called at most once when buffer_response is true (on
\* the first invocation), and never when it is false.
C11_NegotiatedOnce ==
    IF CONFIG.init
    THEN IF CONFIG.v.buffer_response THEN Len(features) <= 1 ELSE features = <<>>
    ELSE features = <<>>


\* the host enabled response buffering in an enable_features call so far
BufferingGranted ==
    \E i \in 1..Len(features) : features[i].enabled = FEATURE_BUFFER_RESPONSE

\* C12: handle_response reads no response headers, no response body and
\* sends no POST when buffer_response is false, and likewise when no
\* enable_features call so far was answered with the response-buffering bit.
C12_ResponseOnlyWhenNegotiated ==
    (ret.entry = "handle_response" /\ ret.outcome = "returned")
    => IF CONFIG.v.buffer_response /\ BufferingGranted
       THEN TRUE
       ELSE /\ posts = <<>>
            /\ CallsOf("get_header_names", RESPONSE_KIND) = {}
            /\ CallsOf("read_body", RESPONSE_KIND) = {}


\* the records handed to the collector's connection in this invocation: the
\* "data" member of each payload written
RecordsSent ==
    { posts[i].body[5][2] : i \in { j \in 1..Len(posts) : Len(posts[j].body) > 0 } }

\* C13: in every record sent by the response pipeline the errors list is
\* the single entry {source "response", error_type "HTTP Error", message
\* "HTTP status code: {code}", file "", line 0} when is_error # 0 or the
\* status is at least 400, and is empty otherwise.
C13_StatusToError ==
    ret.entry = "handle_response"
    => \A record \in RecordsSent :
           record.errors =
               IF txn.is_error # 0 \/ txn.in.status >= 400
               THEN << [source |-> "response", error_type |-> "HTTP Error",
                        message |-> <<"HTTP status code: ", txn.in.status>>,
                        file |-> "", line |-> 0] >>
               ELSE <<>>

\* a response with status 400 and is_error = 0 was recorded and sent
C13_Witness ==
    /\ ret.entry = "handle_response"
    /\ txn.is_error = 0
    /\ txn.in.status = 400
    /\ \E record \in RecordsSent : Len(record.errors) = 1


(***************************************************************************)
(* The client address on its own: SpecIp gives parse_request one header    *)
(* map after another.                                                      *)
(***************************************************************************)
\* header maps over X-Forwarded-For, X-Real-IP and a lower-case spelling of
\* the former, with values of one and two comma-separated parts
IpHeaderMaps ==
    UNION { [K -> { <<"1">>, <<" ", "1", " ", ",", "2">>, <<"3", ",", "4">>, <<>> }] :
                K \in SUBSET { X_FORWARDED_FOR, X_REAL_IP, to_lowercase(X_FORWARDED_FOR) } }

InitIp ==
    /\ GuestAtRest /\ HostAtRest /\ ObsAtRest
    /\ arg \in [headers : IpHeaderMaps]
    /\ res = Pending

CallParseRequest ==
    /\ res = Pending
    /\ res' = parse_request(<<"P","O","S","T">>, <<"/","u","s","e","r","s">>,
                            arg.headers, Bytes(<<"{", "}">>, 0, TRUE), Config_fallback)
    /\ UNCHANGED <<guestVars, hostVars, obsVars, arg>>

SpecIp == InitIp /\ [][CallParseRequest]_vars

\* p is s up to its first comma (all of s when it has none)
IsFirstPart(p, s) ==
    /\ Len(p) <= Len(s)
    /\ p = SubSeq(s, 1, Len(p))
    /\ \A i \in 1..Len(p) : p[i] # ","
    /\ Len(p) < Len(s) => s[Len(p) + 1] = ","

\* t is p without the spaces at its two ends
IsTrimOf(t, p) ==
    \E a \in 0..Len(p) : \E b \in 0..(Len(p) - a) :
        /\ t = SubSeq(p, a + 1, Len(p) - b)
        /\ \A i \in 1..a : p[i] = " "
        /\ \A i \in (Len(p) - b + 1)..Len(p) : p[i] = " "
        /\ Len(t) > 0 => (t[1] # " " /\ t[Len(t)] # " ")

IsTrimmedFirstPart(ip, s) ==
    \E k \in 0..Len(s) : IsFirstPart(SubSeq(s, 1, k), s) /\ IsTrimOf(ip, SubSeq(s, 1, k))

\* parse_request has run on the header map
IpParsed == res # Pending /\ res.ok

ConfigErrorLogged ==
    \E i \in 1..Len(hostLog) :
        /\ hostLog[i][1] = LOG_LEVEL_ERROR
        /\ hostLog[i][2] \in { "Failed to parse config, using fallback",
                               "Invalid configuration" }

\* C15: when the configuration blob cannot be fetched (the host call fails,
\* the blob does not fit the buffer, or it is not UTF-8) or is not valid
\* JSON, the invocation that materializes CONFIG leaves it equal to the
\* documented defaults and an Error line has gone to the host.
C15_ConfigFallback ==
    (/\ CalledFn("get_config")
     /\ \/ hostConfig.len < 0
        \/ hostConfig.len > READ_BUF_SIZE
        \/ ~hostConfig.utf8
        \/ hostConfig.data.t = "invalid")
    => (/\ CONFIG.init
        /\ CONFIG.v = Config_fallback
        /\ ConfigErrorLogged)


\* C16: a configuration the host delivered and that parsed, but whose
\* api_key or project_id is empty, is logged as invalid and stays the
\* process-wide Config with every field as parsed from the blob.
ConfigParsedFromHost ==
    /\ CalledFn("get_config")
    /\ hostConfig.len >= 0
    /\ hostConfig.len <= READ_BUF_SIZE
    /\ hostConfig.utf8
    /\ hostConfig.data.t # "invalid"
C16_InvalidConfigKept ==
    IF ConfigParsedFromHost
    THEN ~Config_validate(Config_from_value(hostConfig.data)).ok
         => /\ CONFIG.init
            /\ CONFIG.v = Config_from_value(hostConfig.data)
            /\ \E i \in 1..Len(hostLog) :
                   hostLog[i] = << LOG_LEVEL_ERROR, "Invalid configuration" >>
    ELSE TRUE


\* C17: while the process-wide Config has log_level None, the guest makes
\* no call of the host's log function, whatever entry points have run.
C17_NoneIsSilent ==
    (CONFIG.init /\ CONFIG.v.log_level = "None") => hostLog = <<>>


\* the send that a step of the client appended to sendLog
Sent == sendLog'[Len(sendLog')]
SendStep == Len(sendLog') = Len(sendLog) + 1
Pool == HTTP_CLIENT.v.connection_pool
Age(conn) == now - conn.last_used
\* the pool as the acquisition of a send leaves it
PoolAfterAcquisition ==
    LET fresh == SelectSeq(Pool, LAMBDA conn : Age(conn) < CONNECTION_TIMEOUT)
    IN  IF Sent.reused THEN Tail(fresh) ELSE fresh

\* C18: pool bound: the connection pool never holds more than
\* MAX_POOL_SIZE (50) entries, and a successful send puts its stream at the
\* back of the pool iff the pool then holds fewer than MAX_POOL_SIZE
\* entries, and drops it otherwise.
C18_PoolBound ==
    /\ [](Len(Pool) <= MAX_POOL_SIZE)
    /\ [][(SendStep /\ Sent.result = "Ok") =>
            Pool' = IF Len(PoolAfterAcquisition) < MAX_POOL_SIZE
                    THEN Append(PoolAfterAcquisition,
                                [stream |-> Sent.stream, last_used |-> now])
                    ELSE PoolAfterAcquisition]_vars

\* a second successful send on the pooled stream put it back in the pool
C18_Witness ==
    /\ Len(sendLog) >= 2
    /\ sendLog[Len(sendLog)].result = "Ok"
    /\ sendLog[Len(sendLog)].reused
    /\ Pool = << [stream |-> sendLog[Len(sendLog)].stream, last_used |-> now] >>

\* C19: idle expiry: a connection handed out from the pool was last used
\* less than CONNECTION_TIMEOUT (60 s) ago, and after an acquisition the
\* pool holds no entry whose age is CONNECTION_TIMEOUT or more.
C19_IdleExpiry ==
    [][(SendStep /\ Sent.result \notin {"panic", "InvalidUrl"}) =>
         /\ Sent.reused =>
                \E i \in 1..Len(Pool) :
                    /\ Pool[i].stream = Sent.stream
                    /\ Age(Pool[i]) < CONNECTION_TIMEOUT
         /\ (\A i \in 1..Len(Pool) : Age(Pool[i]) >= CONNECTION_TIMEOUT)
                => ~Sent.reused
         /\ \A i \in 1..Len(Pool') :
                now' - Pool'[i].last_used < CONNECTION_TIMEOUT]_vars

\* a stream pooled at 0 was reused at once; CONNECTION_TIMEOUT later the
\* next send found it expired and opened a new connection
C19_Witness ==
    /\ Len(sendLog) = 3
    /\ now = CONNECTION_TIMEOUT
    /\ sendLog[1].result = "Ok"
    /\ sendLog[2].result = "Ok" /\ sendLog[2].reused
    /\ sendLog[3].result = "Ok" /\ ~sendLog[3].reused
    /\ Pool = << [stream |-> sendLog[3].stream, last_used |-> now] >>


\* handle_request reached the send and the endpoint refused the TCP connect
RefusedSend ==
    /\ ret.entry = "handle_request"
    /\ txn.in.net.asked /\ txn.in.net.connect = "refused"
    /\ Len(posts) = 1
    /\ posts[1].result = "Io" /\ posts[1].stream = NoStream
ErrorLines == SelectSeq(hostLog, LAMBDA line : line[1] = LOG_LEVEL_ERROR)
\* the Error lines the logger forwarded about a failed send
SendErrorLines ==
    SelectSeq(ErrorLines, LAMBDA line :
        line[2] \in { "Failed to send data to Treblle API", "Error processing request" })

\* C20 as stated: a request whose send is refused returns 1 and emits one
\* Error-level log entry, so k such requests emit k.
C20_AsStated ==
    RefusedSend => /\ ret.outcome = "returned" /\ ret.value = 1
                   /\ Len(ErrorLines) = 1

\* C20: collector unreachable: a request whose send is refused returns 1;
\* the logger forwards two Error lines about the failed send, the one of
\* send_to_treblle and then the one of the entry point, unless
\* Config.log_level is None, when it forwards neither.
C20_CollectorUnreachable ==
    RefusedSend =>
        /\ ret.outcome = "returned" /\ ret.value = 1
        /\ [i \in 1..Len(SendErrorLines) |-> SendErrorLines[i][2]] =
               IF CONFIG.v.log_level = "None" THEN <<>>
               ELSE << "Failed to send data to Treblle API", "Error processing request" >>

\* the second request in a row was refused, with logging at Debug
C20_Witness ==
    /\ RefusedSend
    /\ HTTP_CLIENT.v.current_url_index = 2
    /\ CONFIG.v.log_level = "Debug"
    /\ Len(ErrorLines) = 2


\* the network accepts the connection and the whole request
Accepting == [connect |-> "ok", write |-> "ok"]

C22_EndpointsNonEmpty ==
    /\ CONFIG.init => CONFIG.v.treblle_api_urls # <<>>
    /\ HTTP_CLIENT.init => HTTP_CLIENT.v.treblle_api_urls # <<>>


(***************************************************************************)
(* Building the records: SpecRecord builds the request section and the     *)
(* response section from body bytes, and serializes the payload.           *)
(***************************************************************************)
PwdDocument == <<"{", "\"", "P", "w", "d", "\"", ":", "\"", "s", "\"", "}">>

RecordBodies ==
    { Bytes(<<>>, 0, TRUE),
      Bytes(<<>>, 3, TRUE),
      Bytes(<<"x">>, 0, TRUE),
      Bytes(<<"{", "}">>, 0, TRUE),
      Bytes(<<"{", "}">>, 9, TRUE),
      Bytes(<<"{", "}">>, READ_BUF_SIZE - 1, TRUE),
      Bytes(<<"[", "]">>, 0, TRUE),
      Bytes(PwdDocument, 0, TRUE),
      Bytes(SubSeq(PwdDocument, 1, 6), 0, TRUE),
      Bytes(<<"?">>, 0, FALSE) }
RecordRegexes == { "(?i)pwd", "^id$", "[invalid" }
RecordStatuses == { 0, 7, 200, 404, 65535 }

RecordConfig(regex) == [Config_fallback EXCEPT !.sensitive_keys_regex = regex]

InitRecord ==
    /\ GuestAtRest /\ HostAtRest /\ ObsAtRest
    /\ arg \in [body : RecordBodies, regex : RecordRegexes, status : RecordStatuses]
    /\ res = Pending

\* what an entry point does with a built section: put it in a new payload
\* and serialize the payload
Serialized(section, built, config) ==
    IF ~built.ok THEN Err(built.err)
    ELSE Ok([of |-> section,
             info |-> built.v,
             json |-> IF section = "request"
                      THEN to_json([Payload_new(config) EXCEPT
                                       !.data.request = built.v]).v
                      ELSE to_json([Payload_new(config) EXCEPT
                                       !.data.response = built.v]).v])

BuildRequestRecord ==
    /\ res = Pending
    /\ res' = Serialized("request",
                         parse_request(<<"P","O","S","T">>, <<"/","u","s","e","r","s">>,
                                       [h \in {USER_AGENT} |-> <<"1">>], arg.body,
                                       RecordConfig(arg.regex)),
                         RecordConfig(arg.regex))
    /\ UNCHANGED <<guestVars, hostVars, obsVars, arg>>

BuildResponseRecord ==
    /\ res = Pending
    /\ res' = Serialized("response",
                         parse_response(arg.status, [h \in {USER_AGENT} |-> <<"1">>],
                                        arg.body, RecordConfig(arg.regex)),
                         RecordConfig(arg.regex))
    /\ UNCHANGED <<guestVars, hostVars, obsVars, arg>>

NextRecord == BuildRequestRecord \/ BuildResponseRecord

SpecRecord == InitRecord /\ [][NextRecord]_vars

\* the JSON document the bytes hold, if they hold one
HoldsJson(body) ==
    /\ body.utf8
    /\ body.head \in { <<"{", "}">>, <<"[", "]">>, PwdDocument }
\* that document after redaction with the pattern
RedactedDocument(body, regex) ==
    IF body.head = <<"{", "}">> THEN [t |-> "object", v |-> << >>]
    ELSE IF body.head = <<"[", "]">> THEN [t |-> "array", v |-> << >>]
    ELSE [t |-> "object",
          v |-> [key \in { <<"P","w","d">> } |->
                    [t |-> "string",
                     v |-> IF regex = "(?i)pwd" THEN "*****" ELSE "s"]]]

RECURSIVE DecimalValue(_)
DecimalValue(s) ==
    IF s = <<>> THEN 0
    ELSE 10 * DecimalValue(SubSeq(s, 1, Len(s) - 1))
         + (CHOOSE d \in 0..9 : DecimalDigits[d + 1] = s[Len(s)])
IsNumeral(j, n) ==
    /\ j.t = "string"
    /\ Len(j.v) >= 1
    /\ \A i \in 1..Len(j.v) : \E d \in 0..9 : j.v[i] = DecimalDigits[d + 1]
    /\ Len(j.v) > 1 => j.v[1] # "0"
    /\ DecimalValue(j.v) = n

\* C24: numeric-as-string (P9): in the serialized record response.code and
\* response.size are JSON strings holding the decimal digits of the status
\* code and of the body size.
C24_NumericAsString ==
    res.ok =>
        /\ IsNumeral(res.v.json[5][2].response.code,
                     IF res.v.of = "response" THEN arg.status ELSE 0)
        /\ IsNumeral(res.v.json[5][2].response.size,
                     IF res.v.of = "response" THEN BLen(arg.body) ELSE 0)

\* status 404 and a body of 2049 bytes were serialized
C24_Witness ==
    /\ res.ok
    /\ res.v.of = "response"
    /\ arg.status = 404
    /\ BLen(arg.body) = READ_BUF_SIZE + 1
    /\ res.v.json[5][2].response.code = [t |-> "string", v |-> <<"4", "0", "4">>]
    /\ res.v.json[5][2].response.size = [t |-> "string", v |-> <<"2", "0", "4", "9">>]


\* the sends whose request reached the connection
Written == { i \in 1..Len(sendLog) : sendLog[i].stream # NoStream }

\* C25: the request written to the collector is the head POST {path}
\* HTTP/1.1, Host, Content-Type: application/json, X-Api-Key,
\* Content-Length: the length of the payload, Connection: keep-alive and an
\* empty line, followed by exactly the payload.
C25_RequestOnTheWire ==
    \A i \in Written :
        /\ sendLog[i].body = ClientPayload(i - 1)
        /\ Len(sendLog[i].head) = 7
        /\ sendLog[i].head[1] = <<"POST", Url_parse(sendLog[i].url).path, "HTTP/1.1">>
        /\ sendLog[i].head[2] = <<"Host", Url_parse(sendLog[i].url).host>>
        /\ sendLog[i].head[3] = <<"Content-Type", "application/json">>
        /\ sendLog[i].head[4] = <<"X-Api-Key", "key">>
        /\ sendLog[i].head[5] = <<"Content-Length", Len(sendLog[i].body)>>
        /\ sendLog[i].head[6] = <<"Connection", "keep-alive">>
        /\ sendLog[i].head[7] = <<>>

\* four requests with payloads of 2, 7, 3 and 8 bytes were written
C25_Witness ==
    /\ Len(sendLog) >= 4
    /\ {1, 2, 3, 4} \subseteq Written
    /\ [i \in 1..4 |-> sendLog[i].head[5][2]] = <<2, 7, 3, 8>>


(***************************************************************************)
(* The non-blocking send loop (WasiHttpClient::send_non_blocking).         *)
(* SpecSend runs the loop one iteration per step against a writer that     *)
(* answers each write as it pleases.                                       *)
(***************************************************************************)
MaxSendLen == 3
SleepJump == 1000

\* the data to send: the first n bytes of a, b, c, d, e, a, ..
SendByte(i) == << "a", "b", "c", "d", "e" >>[((i - 1) % 5) + 1]
SendData == { [i \in 1..n |-> SendByte(i)] : n \in 0..MaxSendLen }

\* what writer.write(&data[written..]) may answer: Ok(n) with n up to the
\* length of the slice, Err(WouldBlock), or another error
WriterAnswers(remaining) ==
    { [kind |-> "Ok", n |-> n] : n \in 0..remaining }
    \cup { [kind |-> "WouldBlock", n |-> 0], [kind |-> "Other", n |-> 0] }

\* how long sleep(1 ms) takes, in milliseconds
SleepMillis == { 1, SleepJump }

\* the loop at its start: let mut written = 0; let start = Instant::now()
SendStart ==
    [pc |-> "while", written |-> 0, elapsed |-> 0, iterations |-> 0, accepted |-> <<>>]

\* send_non_blocking, mutated: after a write the next slice starts one byte
\* too early
send_iteration_overlapping(s, data, answer, slept) ==
    IF s.written >= Len(data) THEN [s EXCEPT !.pc = "Ok"]
    ELSE IF answer.kind = "Ok"
    THEN [s EXCEPT !.written = @ + answer.n,
                   !.accepted = @ \o SubSeq(data, IF s.written > 0 THEN s.written
                                                  ELSE 1,
                                            s.written + answer.n),
                   !.iterations = (@ + 1) % 2]
    ELSE IF answer.kind = "WouldBlock"
    THEN IF s.elapsed > CONNECT_TIMEOUT * 1000
         THEN [s EXCEPT !.pc = "Timeout"]
         ELSE [s EXCEPT !.elapsed = @ + slept, !.iterations = (@ + 1) % 2]
    ELSE [s EXCEPT !.pc = "Io"]

\* one evaluation of the while condition and, when it holds, of the loop
\* body.  elapsed is start.elapsed() in milliseconds; iterations counts the
\* iterations modulo 2; accepted is what the writer has taken so far.
send_iteration(s, data, answer, slept) ==
    IF s.written >= Len(data) THEN [s EXCEPT !.pc = "Ok"]
    ELSE IF answer.kind = "Ok"
    THEN [s EXCEPT !.written = @ + answer.n,
                   !.accepted = @ \o SubSeq(data, s.written + 1, s.written + answer.n),
                   !.iterations = (@ + 1) % 2]
    ELSE IF answer.kind = "WouldBlock"
    THEN IF s.elapsed > CONNECT_TIMEOUT * 1000
         THEN [s EXCEPT !.pc = "Timeout"]
         ELSE [s EXCEPT !.elapsed = @ + slept, !.iterations = (@ + 1) % 2]
    ELSE [s EXCEPT !.pc = "Io"]

InitSend ==
    /\ GuestAtRest /\ HostAtRest /\ ObsAtRest
    /\ arg \in SendData
    /\ res = SendStart

SendIteration ==
    /\ res.pc = "while"
    /\ \E answer \in WriterAnswers(Len(arg) - res.written) :
       \E slept \in SleepMillis :
          res' = send_iteration(res, arg, answer, slept)
    /\ UNCHANGED <<guestVars, hostVars, obsVars, arg>>

SpecSend == InitSend /\ [][SendIteration]_vars

\* the loop keeps running: an iteration that can be taken is taken
SpecSendLive == SpecSend /\ WF_vars(SendIteration)

\* C26: the send loop always ends, with Ok, Timeout or Io, whatever the
\* writer answers (full, partial and zero-byte writes, would-block, other
\* errors).
C26_SendTerminates == <>(res.pc \in {"Ok", "Timeout", "Io"})

\* C27: when the send loop returns Ok, what the writer accepted, chunk
\* after chunk, is the data, every byte once and in order; a write of n
\* bytes advances the offset by n.
C27_AllBytesInOrder ==
    /\ [](res.pc = "Ok" => res.accepted = arg)
    /\ [](Len(res.accepted) = res.written)
    /\ [][res'.written - res.written = Len(res'.accepted) - Len(res.accepted)]_vars

\* three bytes went out in more than one write, with a wait in between
C27_Witness ==
    /\ res.pc = "Ok"
    /\ arg = << "a", "b", "c" >>
    /\ res.accepted = arg
    /\ res.elapsed = SleepJump + 1


(***************************************************************************)
(* Endpoint selection at any counter value: SpecRotation calls             *)
(* get_next_url on a client whose counter has reached any value below the  *)
(* modulus.                                                                *)
(***************************************************************************)
MaxSelections == 3

InitRotation ==
    /\ GuestAtRest /\ HostAtRest /\ ObsAtRest
    /\ arg \in { [WasiHttpClient_new(urls) EXCEPT !.current_url_index = index] :
                    urls \in EndpointLists \ { <<>> },
                    index \in 0..(USIZE_MODULUS - 1) }
    /\ res = <<>>

CallGetNextUrl ==
    /\ Len(res) < MaxSelections
    /\ \E nu \in { get_next_url(arg) } :
          /\ res' = Append(res, [counter |-> arg.current_url_index, url |-> nu.url])
          /\ arg' = nu.client
    /\ UNCHANGED <<guestVars, hostVars, obsVars>>

SpecRotation == InitRotation /\ [][CallGetNextUrl]_vars

\* the position of a selected endpoint in the list
PositionOf(url, urls) == CHOOSE i \in 1..Len(urls) : urls[i] = url

\* C28: rotation survives the counter's wrap: the endpoint selected after
\* the selection that used the counter value 2^w - 1 is the cyclic
\* successor of the endpoint selected then, for every number of endpoints.
C28_RotationSurvivesWrap ==
    \A i \in 1..(Len(res) - 1) :
        res[i].counter = USIZE_MODULUS - 1 =>
            res[i + 1].url =
                arg.treblle_api_urls[
                    (PositionOf(res[i].url, arg.treblle_api_urls)
                        % Len(arg.treblle_api_urls)) + 1]


KindOf(entry) == IF entry = "handle_request" THEN REQUEST_KIND ELSE RESPONSE_KIND

\* the position of the one call of fn for kind, 0 when there is not exactly one
TheCall(fn, kind) ==
    IF Cardinality(CallsOf(fn, kind)) = 1
    THEN CHOOSE i \in CallsOf(fn, kind) : TRUE
    ELSE 0

\* what the host answered when asked for the values of header `name'
ValueOf(kind, name) ==
    IF kind = REQUEST_KIND /\ name = HEADER_CONTENT_TYPE
    THEN txn.in.content_type
    ELSE IF name \in DOMAIN txn.in.headers[kind].values
    THEN txn.in.headers[kind].values[name]
    ELSE Reply(0, <<>>, TRUE)

\* the names the host listed for the message
NamesListed(kind) ==
    { txn.in.headers[kind].names.data[i] :
          i \in 1..Len(txn.in.headers[kind].names.data) } \ { <<>> }

\* the headers the host handed over: a header is in when its values were read
HeadersRead(kind) ==
    [name \in { n \in NamesListed(kind) : Answered(ValueOf(kind, n)) } |->
        ValueOf(kind, name).data]

\* the section of the record in a POST that describes the message
SectionSent(post, kind) ==
    IF kind = REQUEST_KIND THEN post.body[5][2].request ELSE post.body[5][2].response

\* the host calls of an invocation that posted come in the order header
\* names, header values, body read, body write-back, protocol version, and
\* the POST comes after the last of them
StepsInOrder(post, kind) ==
    LET names == TheCall("get_header_names", kind)
        read == TheCall("read_body", kind)
        write == TheCall("write_body", kind)
        protocol == TheCall("get_protocol_version", -1)
    IN  /\ 0 < names /\ names < read /\ read < write /\ write < protocol
        /\ protocol = post.after
        /\ post.after = Len(hostCalls)
        /\ \A i \in (names + 1)..(read - 1) :
              hostCalls[i].fn = "get_header_values" /\ hostCalls[i].kind = kind
        /\ \A name \in NamesListed(kind) :
              \E i \in (names + 1)..(read - 1) : hostCalls[i].name = name
        /\ \A i \in (read + 1)..(write - 1) : hostCalls[i].fn = "get_status_code"

\* what was written to the collector is the redacted form of what was read
SentRedacted(post, kind) ==
    LET read == TheCall("read_body", kind)
        regex == CONFIG.v.sensitive_keys_regex
        section == SectionSent(post, kind)
    IN  post.stream # NoStream
        => /\ section.headers = mask_sensitive_headers(HeadersRead(kind), regex).v
           /\ section.body
                  = Some(mask_sensitive_data(parse_json_body(hostCalls[read].data),
                                             regex).v)

\* every step before the POST that can fail has succeeded
StepsSucceeded(kind) ==
    /\ kind = REQUEST_KIND
       => /\ Answered(txn.in.uri)
          /\ Answered(txn.in.content_type)
          /\ Answered(txn.in.method)
    /\ Answered(txn.in.headers[kind].names)
    /\ Answered(HostReadBody(txn.in.body[kind].bytes, READ_BUF_SIZE,
                             txn.in.body[kind].fail).reply)
    /\ Answered(txn.in.protocol)
    /\ Regex_new(CONFIG.v.sensitive_keys_regex).ok

rust_http_wasm_get_headers(m, header_kind) ==
    Bind(log(m, "Info", "Starting get_headers"), LAMBDA m1 :
    Bind(host_get_header_names(m1, header_kind, m1.in.headers[header_kind].names),
         LAMBDA n :
    Bind(map_err(n, "Failed to get header names", "HostFunction"), LAMBDA e :
    Bind(Try(e), LAMBDA m2 :
         IF m2.st # "run" THEN m2
         ELSE Bind(header_loop(m2, header_kind,
                               SelectSeq(m2.r.v, LAMBDA s : s # <<>>), <<>>),
                   LAMBDA m3 :
                       IF m3.st # "run" THEN m3
                       ELSE [log(m3, "Info", "Total headers processed")
                                EXCEPT !.r = m3.r])))))

\* HttpHandler::process_request of rust-http-wasm/src/lib.rs, lines 61-105:
\* the headers are asked for with kind 0 and the body with kind 1
rust_http_wasm_process_request(m) ==
    Bind(log(m, "Info", "Processing request..."), LAMBDA m1 :
    Bind(get_uri(m1), LAMBDA u :
    Bind(Try(u), LAMBDA m2 :
    Bind(log(m2, "Debug", "Processing request for URI"), LAMBDA d :
    Bind(BLACKLIST_deref(d), LAMBDA m3 :
         IF m3.st # "run" THEN m3
         ELSE IF is_blacklisted(m3.BLACKLIST.v, m2.r.v)
         THEN [log(m3, "Info", "URL is blacklisted, skipping Treblle API")
                  EXCEPT !.st = "ok"]
         ELSE
    Bind(host_get_header_values(m3, 0, HEADER_CONTENT_TYPE, m3.in.content_type),
         LAMBDA v :
    Bind(map_err(v, "Failed to get Content-Type", "HostFunction"), LAMBDA c :
    Bind(Try(c), LAMBDA t :
    Bind(log(t, "Debug", "Content-Type"), LAMBDA m4 :
         IF m4.st # "run" THEN m4
         ELSE IF ~is_json(t.r.v)
         THEN [log(m4, "Info", "Non-JSON request, skipping Treblle API")
                  EXCEPT !.st = "ok"]
         ELSE
    Bind(get_method(m4), LAMBDA g :
    Bind(Try(g), LAMBDA m5 :
    Bind(rust_http_wasm_get_headers(m5, 0), LAMBDA h :
    Bind(map_err(h, "Failed to get request headers", "HostFunction"), LAMBDA he :
    Bind(Try(he), LAMBDA m6 :
    Bind(log(m6, "Debug", "Starting to read request body"), LAMBDA m7 :
    Bind(read_body(m7, 1), LAMBDA b :
    Bind(map_err(b, "Failed to read request body", "HostFunction"), LAMBDA be :
    Bind(Try(be), LAMBDA m8 :
         IF m8.st = "run" THEN [m8 EXCEPT !.st = "ok"] ELSE m8))))))))))))))))))

\* HttpHandler::process_response of rust-http-wasm/src/lib.rs, lines 141-160:
\* the headers are asked for with kind 1 and the body with kind 0
rust_http_wasm_process_response(m) ==
    Bind(CONFIG_deref(m), LAMBDA c :
         IF c.st # "run" THEN c
         ELSE IF ~c.CONFIG.v.buffer_response
         THEN [log(c, "Info", "Not processing response, buffer_response is not enabled")
                  EXCEPT !.st = "ok"]
         ELSE
    Bind(log(c, "Info", "Processing response..."), LAMBDA m1 :
    Bind(rust_http_wasm_get_headers(m1, 1), LAMBDA h :
    Bind(map_err(h, "Failed to get response headers", "HostFunction"), LAMBDA he :
    Bind(Try(he), LAMBDA m2 :
    Bind(read_body(m2, 0), LAMBDA b :
    Bind(map_err(b, "Failed to read response body", "HostFunction"), LAMBDA be :
    Bind(Try(be), LAMBDA m3 :
         IF m3.st = "run" THEN [m3 EXCEPT !.st = "ok"] ELSE m3))))))))

\* the entry points of rust-http-wasm/src/lib.rs around the two pipelines
ReadsOfRequest(input) ==
    Bind(logger_init(StartMachine(input)), LAMBDA l :
    Bind(rust_http_wasm_process_request(l), LAMBDA p :
    Bind(if_let_Err(p, "Error processing request"), LAMBDA m :
         IF m.st = "run" THEN [m EXCEPT !.st = "returned", !.r = Ok(1)] ELSE m)))

ReadsOfResponse(input) ==
    Bind(logger_init(StartMachine(input)), LAMBDA l :
    Bind(rust_http_wasm_process_response(l), LAMBDA p :
    Bind(if_let_Err(p, "Error processing response"), LAMBDA m :
         IF m.st = "run" THEN [m EXCEPT !.st = "returned", !.r = Ok(0)] ELSE m)))

\* the bodies the host holds for the two kinds while SpecReads runs: the
\* request body and the response body differ
BodyHeld(kind) ==
    [asked |-> TRUE,
     bytes |-> IF kind = REQUEST_KIND
               THEN Bytes(<<"{", "}">>, 0, TRUE)
               ELSE Bytes(<<"[", "]">>, 0, TRUE),
     fail |-> FALSE]

ReadsRequest ==
    /\ guest = "running"
    /\ txn.phase = "none"
    /\ \E n0 \in {NoInput(hostConfig, now)} :
       \E i0 \in {[n0 EXCEPT !.body = [k \in Kinds |-> BodyHeld(k)]]} :
       \E uri \in Asked(ReadsOfRequest(i0), "get_uri", UriReplies, NotAsked) :
       \E i1 \in {[i0 EXCEPT !.uri = uri]} :
       \E content_type \in Asked(ReadsOfRequest(i1), "get_header_values",
                                 ContentTypeReplies, NotAsked) :
       \E i2 \in {[i1 EXCEPT !.content_type = content_type]} :
       \E method \in Asked(ReadsOfRequest(i2), "get_method", MethodReplies, NotAsked) :
       \E i3 \in {[i2 EXCEPT !.method = method]} :
       \E headers \in Asked(ReadsOfRequest(i3), "get_header_names",
                            RequestHeaderTables, NoHeaders) :
       \E i4 \in {[i3 EXCEPT !.headers[REQUEST_KIND] = headers]} :
       \E m \in {ReadsOfRequest(i4)} :
          Finish(m, "handle_request", 0, i4)

ReadsResponse ==
    /\ guest = "running"
    /\ txn.phase = "forwarded"
    /\ \E n0 \in {[NoInput(hostConfig, now) EXCEPT !.uri = txn.in.uri]} :
       \E i0 \in {[n0 EXCEPT !.body = [k \in Kinds |-> BodyHeld(k)]]} :
       \E headers \in Asked(ReadsOfResponse(i0), "get_header_names",
                            ResponseHeaderTables, NoHeaders) :
       \E i1 \in {[i0 EXCEPT !.headers[RESPONSE_KIND] = headers]} :
       \E m \in {ReadsOfResponse(i1)} :
          Finish(m, "handle_response", 0, i1)

NextReads == ReadsRequest \/ ReadsResponse \/ HostProceeds

SpecReads == Init /\ [][NextReads]_vars

\* the host calls of the last invocation that name a kind of message
KindCalls ==
    { i \in 1..Len(hostCalls) :
          hostCalls[i].fn \in { "get_header_names", "get_header_values",
                                "read_body", "write_body" } }

\* C31: every host call the request pipeline makes for headers and body
\* carries kind 0, and every one the response pipeline makes carries kind 1.
C31_KindMatchesPipeline ==
    \A i \in KindCalls : hostCalls[i].kind = KindOf(ret.entry)

\* what the collector does with a request it was sent: it answers with a
\* status, or (0) it does not answer at all
CollectorAnswers == { 0, 200, 500 }

\* the network as seen by one post, with the collector's answer to it
Answering(net, answer) ==
    [connect |-> net.connect, write |-> net.write, status |-> answer]

FirstConfig ==
    Reply(READ_BUF_SIZE \div 4,
          JObject(("sensitiveKeysRegex" :> JString("^id$")) @@ ConfigBase), TRUE)
SecondConfig == Reply(READ_BUF_SIZE \div 4, JObject(ConfigFull), TRUE)

InitConfig ==
    /\ GuestAtRest
    /\ hostConfig = FirstConfig
    /\ txn = [phase |-> "none", is_error |-> 0, in |-> NoInput(hostConfig, 0)]
    /\ hostBody = [k \in Kinds |-> NoBody]
    /\ features = <<>>
    /\ now = 0
    /\ ret = NoReturn
    /\ hostCalls = <<>>
    /\ hostLog = <<>>
    /\ posts = <<>>
    /\ sendLog = <<>>
    /\ arg = "none" /\ res = "none"

\* the host is given another configuration while no transaction is under way
HostReconfigures ==
    /\ guest = "running"
    /\ txn.phase = "none"
    /\ ret.entry = "none"
    /\ hostConfig = FirstConfig
    /\ hostConfig' = SecondConfig
    /\ UNCHANGED <<guestVars, txn, hostBody, features, now, obsVars, pureVars>>

NextConfig == HandleRequest \/ HandleResponse \/ HostProceeds \/ HostReconfigures

SpecConfig == InitConfig /\ [][NextConfig]_vars

\* the calls of get_config in the last invocation
ConfigReads(calls) == { i \in 1..Len(calls) : calls[i].fn = "get_config" }

\* C33: the configuration is read from the host at most once per guest
\* instance; once CONFIG, BLACKLIST and HTTP_CLIENT are built no step reads
\* it again or changes the Config, the blacklist or the endpoint list,
\* whatever blob the host holds by then.
C33_ConfigMaterializedOnce ==
    /\ [](Cardinality(ConfigReads(hostCalls)) <= 1)
    /\ [][/\ CONFIG.init => /\ CONFIG' = CONFIG
                            /\ ConfigReads(hostCalls') = {}
          /\ BLACKLIST.init => BLACKLIST' = BLACKLIST
          /\ HTTP_CLIENT.init
             => /\ HTTP_CLIENT'.init
                /\ HTTP_CLIENT'.v.treblle_api_urls
                       = HTTP_CLIENT.v.treblle_api_urls]_vars

\* a request was handled, and posted, under the configuration built from
\* the first blob (pattern ^id$, no blacklist, no response buffering) after
\* the host had replaced the blob by one that sets all three
C33_Witness ==
    /\ ret.entry = "handle_request"
    /\ txn.in.config = hostConfig
    /\ hostConfig = SecondConfig
    /\ CONFIG.init
    /\ ~CONFIG.v.buffer_response
    /\ CONFIG.v.sensitive_keys_regex = "^id$"
    /\ BLACKLIST.init /\ BLACKLIST.v.patterns = <<>>
    /\ HTTP_CLIENT.init
    /\ ConfigReads(hostCalls) = {}
    /\ posts # <<>>

(***************************************************************************)
(* The trust store (treblle-wasm-plugin/src/certs.rs): SpecCerts draws a   *)
(* root_ca_path setting, the file found at the path and a log level, and   *)
(* applies load_root_certs to an empty RootCertStore.                      *)
(***************************************************************************)
MaxCerts == 3

\* webpki_roots::TLS_SERVER_ROOTS, as the anchors it adds to a store
TLS_SERVER_ROOTS == << "webpki-1", "webpki-2" >>

\* a certificate of the custom file: RootCertStore::add takes it or not
CustomCerts == [name : {"custom-a", "custom-b"}, valid : BOOLEAN]

\* the file at root_ca_path: it cannot be opened, or it cannot be parsed,
\* or it holds a list of certificates
CertFiles ==
    { [open |-> FALSE, parsed |-> FALSE, certs |-> <<>>],
      [open |-> TRUE, parsed |-> FALSE, certs |-> <<>>] }
    \cup { [open |-> TRUE, parsed |-> TRUE, certs |-> certs] :
              certs \in UNION { [1..n -> CustomCerts] : n \in 0..MaxCerts } }

LogLevels == { "Debug", "Info", "Warn", "Error", "None" }

\* the loader at work: its status, its result, the store it is filling and
\* the lines it has logged
Loader(level) ==
    [st |-> "run", r |-> Ok(JNull), LOG_LEVEL |-> as_i32(level), log |-> <<>>,
     root_store |-> <<>>]

\* certs::load_webpki_roots
load_webpki_roots(m) ==
    [m EXCEPT !.root_store = @ \o TLS_SERVER_ROOTS, !.r = Ok(JNull)]

RECURSIVE add_certs(_, _)
\* the loop of load_custom_certificates: root_store.add(..)? on every
\* certificate of the file, in order
add_certs(m, certs) ==
    IF certs = <<>> THEN [m EXCEPT !.r = Ok(JNull)]
    ELSE IF ~Head(certs).valid
    THEN [log(m, "Error", "Failed to add custom root CA to store")
             EXCEPT !.r = Err("Certificate")]
    ELSE add_certs([m EXCEPT !.root_store = Append(@, Head(certs).name)],
                   Tail(certs))

\* load_custom_certificates, mutated: a file without certificates is taken
\* as loaded
load_custom_certificates_accepts_empty(m, file) ==
    IF ~file.open
    THEN [log(m, "Error", "Failed to open custom root CA file")
             EXCEPT !.r = Err("Certificate")]
    ELSE IF ~file.parsed
    THEN [log(m, "Error", "Failed to parse custom root CA file")
             EXCEPT !.r = Err("Certificate")]
    ELSE add_certs(m, file.certs)

\* certs::load_custom_certificates
load_custom_certificates(m, file) ==
    IF ~file.open
    THEN [log(m, "Error", "Failed to open custom root CA file")
             EXCEPT !.r = Err("Certificate")]
    ELSE IF ~file.parsed
    THEN [log(m, "Error", "Failed to parse custom root CA file")
             EXCEPT !.r = Err("Certificate")]
    ELSE IF file.certs = <<>>
    THEN [log(m, "Error", "No certificates found in the custom root CA file")
             EXCEPT !.r = Err("Certificate")]
    ELSE add_certs(m, file.certs)

\* certs::load_root_certs; root_ca_path is CONFIG.root_ca_path and file is
\* what the file system holds at that path
load_root_certs(m, root_ca_path, file) ==
    Bind(IF root_ca_path # None THEN load_custom_certificates(m, file) ELSE m,
         LAMBDA c :
         IF root_ca_path # None /\ c.r.ok
         THEN log(c, "Debug", "Custom root CA loaded successfully")
         ELSE
    Bind(IF root_ca_path # None
         THEN log(c, "Error", "Failed to load custom root CA. Falling back to webpki-roots.")
         ELSE c, LAMBDA e :
    Bind(load_webpki_roots(e), LAMBDA w :
         [log(w, "Debug", "Webpki root certificates loaded successfully")
             EXCEPT !.r = Ok(JNull)])))

InitCerts ==
    /\ GuestAtRest /\ HostAtRest /\ ObsAtRest
    /\ arg \in [root_ca_path : { None, Some("/etc/certs/rootCA.pem") },
                file : CertFiles, level : LogLevels]
    /\ res = Pending

CallLoadRootCerts ==
    /\ res = Pending
    /\ res' = load_root_certs(Loader(arg.level), arg.root_ca_path, arg.file)
    /\ UNCHANGED <<guestVars, hostVars, obsVars, arg>>

SpecCerts == InitCerts /\ [][CallLoadRootCerts]_vars

\* the custom load is attempted and goes through: the file opens, parses,
\* holds a certificate and the store takes every certificate
CustomLoads ==
    /\ arg.root_ca_path # None
    /\ arg.file.open /\ arg.file.parsed /\ arg.file.certs # <<>>
    /\ \A i \in 1..Len(arg.file.certs) : arg.file.certs[i].valid

\* the lines of level Error the loader handed to the host
CertErrorLines == SelectSeq(res.log, LAMBDA line : line[1] = LOG_LEVEL_ERROR)

\* the anchors of the built-in set are in the store
HasBuiltInSet(store) ==
    \A i \in 1..Len(TLS_SERVER_ROOTS) :
        \E j \in 1..Len(store) : store[j] = TLS_SERVER_ROOTS[i]

C35_FailedLoadLeavesNoTrace ==
    (res # Pending /\ arg.root_ca_path # None /\ ~CustomLoads)
    => res.root_store = TLS_SERVER_ROOTS

(***************************************************************************)
(* Config::from_value on its own: SpecParse draws a JSON object whose keys *)
(* are absent, of the expected type or of another type, and applies        *)
(* Config::from_value to it.                                               *)
(***************************************************************************)
\* what a key of the blob may hold; Absent stands for a key that is not there
Absent == [t |-> "absent", v |-> "absent"]

ApiUrlValues ==
    { Absent, JNumber(1),
      JArray(<< JString("https://collector.example") >>),
      JArray(<< JNumber(1), JString("https://collector.example") >>),
      JArray(<< JNumber(1), JNull >>) }
ApiKeyValues == { Absent, JString("key"), JNumber(7) }
ProjectIdValues == { Absent, JString("proj") }
RouteBlacklistValues ==
    { Absent, JString("^/internal/.*$"), JArray(<< JString("^/internal/.*$") >>) }
SensitiveKeysValues == { Absent, JString("^id$"), JBool(TRUE) }
BufferResponseValues ==
    { Absent, JBool(TRUE), JBool(FALSE), JNumber(1),
      JString(<<"T","r","u","e">>), JString(<<"t","r","u","e">>),
      JString(<<"F","A","L","S","E">>), JString(<<"y","e","s">>) }
LogLevelValues ==
    { Absent, JNumber(0), JString(<<"D","E","B","U","G">>),
      JString(<<"W","a","r","n","i","n","g">>), JString(<<"v","e","r","b","o","s","e">>) }
RootCaPathValues == { Absent, JString("/etc/certs/rootCA.pem"), JNumber(1) }

ConfigKeys ==
    { "treblleApiUrls", "apiKey", "projectId", "routeBlacklist",
      "sensitiveKeysRegex", "bufferResponse", "logLevel", "rootCaPath" }

\* the JSON object holding the keys of the choice that are not Absent
BlobOf(choice) ==
    JObject([key \in { k \in ConfigKeys : choice[k].t # "absent" } |-> choice[key]])

ConfigBlobs ==
    { BlobOf(("treblleApiUrls" :> urls) @@ ("apiKey" :> key) @@ ("projectId" :> project)
             @@ ("routeBlacklist" :> routes) @@ ("sensitiveKeysRegex" :> regex)
             @@ ("bufferResponse" :> buffer) @@ ("logLevel" :> level)
             @@ ("rootCaPath" :> ca)) :
        urls \in ApiUrlValues, key \in ApiKeyValues, project \in ProjectIdValues,
        routes \in RouteBlacklistValues, regex \in SensitiveKeysValues,
        buffer \in BufferResponseValues, level \in LogLevelValues,
        ca \in RootCaPathValues }

InitParse ==
    /\ GuestAtRest /\ HostAtRest /\ ObsAtRest
    /\ arg \in ConfigBlobs
    /\ res = Pending

CallFromValue ==
    /\ res = Pending
    /\ res' = Ok(Config_from_value(arg))
    /\ UNCHANGED <<guestVars, hostVars, obsVars, arg>>

SpecParse == InitParse /\ [][CallFromValue]_vars

\* the key is in the blob and holds a value of JSON type t
Typed(key, t) == key \in DOMAIN arg.v /\ arg.v[key].t = t

\* the field is the array under the key, element for element
Verbatim(field, key) ==
    /\ Len(field) = Len(arg.v[key].v)
    /\ \A i \in 1..Len(field) :
          arg.v[key].v[i].t = "string" /\ field[i] = arg.v[key].v[i].v

\* the string-valued keys: verbatim when a string, else the default
StringKeysAsClaimed ==
    /\ res.v.api_key = IF Typed("apiKey", "string") THEN arg.v["apiKey"].v ELSE ""
    /\ res.v.project_id = IF Typed("projectId", "string") THEN arg.v["projectId"].v ELSE ""
    /\ res.v.sensitive_keys_regex
          = IF Typed("sensitiveKeysRegex", "string") THEN arg.v["sensitiveKeysRegex"].v
            ELSE DEFAULT_SENSITIVE_KEYS_REGEX
    /\ res.v.root_ca_path
          = IF Typed("rootCaPath", "string") THEN Some(arg.v["rootCaPath"].v) ELSE None

\* bufferResponse: true iff the boolean true or a string that is "true"
\* ignoring case
BufferResponseAsClaimed ==
    res.v.buffer_response
       = IF Typed("bufferResponse", "bool") THEN arg.v["bufferResponse"].v
         ELSE IF Typed("bufferResponse", "string")
         THEN arg.v["bufferResponse"].v
                 \in { <<a, b, c, d>> : a \in {"t","T"}, b \in {"r","R"},
                                        c \in {"u","U"}, d \in {"e","E"} }
         ELSE FALSE

\* logLevel: a level's name in any case gives the level, all else None
LogLevelAsClaimed ==
    res.v.log_level
       = IF ~Typed("logLevel", "string") THEN "None"
         ELSE IF arg.v["logLevel"].v = <<"D","E","B","U","G">> THEN "Debug"
         ELSE IF arg.v["logLevel"].v = <<"W","a","r","n","i","n","g">> THEN "Warn"
         ELSE "None"

\* the array-valued keys: verbatim when an array, else the default
ArrayKeysAsClaimed ==
    /\ IF Typed("treblleApiUrls", "array")
       THEN Verbatim(res.v.treblle_api_urls, "treblleApiUrls")
            \/ res.v.treblle_api_urls = DEFAULT_TREBLLE_API_URLS
       ELSE res.v.treblle_api_urls = DEFAULT_TREBLLE_API_URLS
    /\ IF Typed("routeBlacklist", "array")
       THEN Verbatim(res.v.route_blacklist, "routeBlacklist")
            \/ res.v.route_blacklist = <<>>
       ELSE res.v.route_blacklist = <<>>

\* C36: Config::from_value applies defaults field by field: a key that is
\* missing or of the wrong type yields its default and a key that is present
\* is taken verbatim; bufferResponse is true iff it is the boolean true or a
\* string equal to "true" ignoring case.
C36_DefaultsFieldByField ==
    res # Pending
    => /\ StringKeysAsClaimed
       /\ BufferResponseAsClaimed
       /\ LogLevelAsClaimed
       /\ ArrayKeysAsClaimed

(***************************************************************************)
(* The request-library client of the rust-http-wasm crate                  *)
(* (rust-http-wasm/src/http_client.rs): SpecRetry runs HttpClient::post,   *)
(* one evaluation of its while loop per step, against every outcome and    *)
(* duration of the attempts.  Times are in milliseconds.                   *)
(***************************************************************************)
HTTP_TIMEOUT_SECONDS == 10
RETRY_DELAY_MILLIS == 100
MaxStartIndex == 2
SlowAttempt == 4000
LongSleep == 1500

\* what attempt_post returns: Ok, or an Http error of one of three kinds;
\* Uri::try_from is taken to accept what Url::parse accepts
AttemptOutcomes(url) ==
    IF ~Url_parse(url).ok THEN { "InvalidUrl" }
    ELSE { "Ok", "SendFailed", "HttpError" }

\* how long an attempt takes, and how long sleep(100 ms) takes
AttemptMillis == { 0, SlowAttempt }
RetrySleepMillis == { RETRY_DELAY_MILLIS, LongSleep }

\* HttpClient::new at a later point of its life: the counter has advanced
LegacyClients ==
    [urls : EndpointLists, current_index : 0..MaxStartIndex]

\* HttpClient::get_next_url (rust-http-wasm); the remainder by an empty
\* list's length panics
rust_http_wasm_get_next_url(client) ==
    [panic |-> client.urls = <<>>,
     url |-> IF client.urls = <<>> THEN ""
             ELSE client.urls[(client.current_index % Len(client.urls)) + 1],
     client |-> [client EXCEPT !.current_index = (@ + 1) % USIZE_MODULUS]]

\* HttpClient::post up to its loop: let url = self.get_next_url();
\* let start_time = Instant::now()
post_start(client) ==
    LET nu == rust_http_wasm_get_next_url(client)
    IN  [pc |-> IF nu.panic THEN "panic" ELSE "while",
         index |-> client.current_index, url |-> nu.url, elapsed |-> 0, attempted |-> {}, last |-> "none",
         retried |-> FALSE, errors |-> 0]

\* the loop of post, mutated: no sleep after a failed attempt
post_iteration_busy(s, outcome, took, slept) ==
    IF ~(s.elapsed < HTTP_TIMEOUT_SECONDS * 1000)
    THEN [s EXCEPT !.pc = "Http"]
    ELSE IF outcome = "Ok"
    THEN [s EXCEPT !.pc = "Ok", !.elapsed = @ + took, !.attempted = @ \cup {s.url},
                   !.last = outcome, !.retried = (s.last # "none")]
    ELSE [s EXCEPT !.elapsed = @ + took, !.attempted = @ \cup {s.url},
                   !.last = outcome, !.retried = (s.last # "none"),
                   !.errors = (@ + 1) % 2]

\* one evaluation of the while condition of post and, when it holds, of the
\* loop body: an attempt on url and, when it failed, an Error line and the
\* sleep.  elapsed is start_time.elapsed(); attempted holds the URLs given
\* to attempt_post; last is the latest attempt's outcome; retried tells
\* that an attempt followed a failed one; errors counts the "POST attempt
\* failed" lines modulo 2.
post_iteration(s, outcome, took, slept) ==
    IF ~(s.elapsed < HTTP_TIMEOUT_SECONDS * 1000)
    THEN [s EXCEPT !.pc = "Http"]
    ELSE IF outcome = "Ok"
    THEN [s EXCEPT !.pc = "Ok", !.elapsed = @ + took, !.attempted = @ \cup {s.url},
                   !.last = outcome, !.retried = (s.last # "none")]
    ELSE [s EXCEPT !.elapsed = @ + took + slept, !.attempted = @ \cup {s.url},
                   !.last = outcome, !.retried = (s.last # "none"),
                   !.errors = (@ + 1) % 2]

InitRetry ==
    /\ GuestAtRest /\ HostAtRest /\ ObsAtRest
    /\ arg \in LegacyClients
    /\ res = Pending

PostStart ==
    /\ res = Pending
    /\ res' = post_start(arg)
    /\ arg' = rust_http_wasm_get_next_url(arg).client
    /\ UNCHANGED <<guestVars, hostVars, obsVars>>

PostIteration ==
    /\ res # Pending
    /\ res.pc = "while"
    /\ \E outcome \in AttemptOutcomes(res.url) :
       \E took \in AttemptMillis :
       \E slept \in RetrySleepMillis :
          res' = post_iteration(res, outcome, took, slept)
    /\ UNCHANGED <<guestVars, hostVars, obsVars, arg>>

NextRetry == PostStart \/ PostIteration

SpecRetry == InitRetry /\ [][NextRetry]_vars

\* the guest keeps running: post is entered and its loop goes on
SpecRetryLive == SpecRetry /\ WF_vars(PostStart) /\ WF_vars(PostIteration)

\* post is inside its loop, before and after the step
Looping == res # Pending /\ res.pc = "while"

EntriesOf(pool) == { pool[i] : i \in 1..Len(pool) }

\* C38: a post whose write failed (Timeout or Io on a stream) leaves the
\* pool without the stream it used: the pool afterwards holds only entries
\* it held before, the one handed out not among them; a post that failed
\* before it had a stream leaves the pool as the acquisition left it; and
\* the pool gains an entry only in a post that returned Ok, namely that
\* post's stream, stamped with the time of the post.
C38_FailedStreamNotPooled ==
    [][/\ (SendStep /\ Sent.result \in {"Timeout", "Io"} /\ Sent.stream # NoStream)
          => /\ Pool' = PoolAfterAcquisition
             /\ EntriesOf(Pool') \subseteq EntriesOf(Pool)
             /\ Sent.reused => Len(Pool') < Len(Pool)
             /\ ~Sent.reused => Pool' = <<>>
       /\ Len(Pool') > Len(Pool)
          => /\ SendStep
             /\ Sent.result = "Ok"
             /\ Pool'[Len(Pool')] = [stream |-> Sent.stream, last_used |-> now]
       /\ ~SendStep => EntriesOf(Pool') \subseteq EntriesOf(Pool)]_vars

\* a stream was pooled by a first post and handed out to a second, whose
\* write timed out: the pool is empty after it
C38_Witness ==
    /\ Len(sendLog) = 2
    /\ sendLog[1].result = "Ok"
    /\ sendLog[2].result = "Timeout" /\ sendLog[2].reused
    /\ sendLog[2].stream = sendLog[1].stream
    /\ Pool = <<>>


(***************************************************************************)
(* The locks of the client (treblle-wasm-plugin/src/wasi_http_client.rs):  *)
(* SpecLocks runs posts statement by statement and keeps the mutex guards  *)
(* that are alive.  A std::sync::Mutex is not reentrant: locking a mutex   *)
(* whose guard the thread still holds never returns.                       *)
(***************************************************************************)
MaxCalls == 5

POOL_LOCK == "connection_pool"
TLS_LOCK == "CLIENT_CONFIG"

\* Mutex::lock by the thread holding the guards `held'
lock(s, mutex, next) ==
    IF \E i \in 1..Len(s.held) : s.held[i] = mutex
    THEN [s EXCEPT !.pc = "deadlock"]
    ELSE [s EXCEPT !.held = Append(@, mutex), !.pc = next]

\* a guard kept past the end of its scope
drop_guard_leaked(held, mutex) == held

\* the guard of the mutex goes out of scope
drop_guard(held, mutex) == SelectSeq(held, LAMBDA g : g # mutex)

\* post returns to its caller with the result
return_from_post(s, result) ==
    [s EXCEPT !.pc = "idle", !.result = result, !.calls = @ + 1, !.stream = "none"]

\* what the statement at pc may meet
OutcomesAt(pc) ==
    CASE pc = "idle" -> { "url", "invalid_url" }
      [] pc = "retain" -> { "fresh", "expired" }
      [] pc = "connect" -> { "ok", "refused", "invalid_hostname" }
      [] pc = "ClientConnection_new" -> { "ok", "tls_error" }
      [] pc = "send_non_blocking" -> { "ok", "timeout", "io" }
      [] OTHER -> { "ok" }

\* one statement of post, get_connection, get_client_config or
\* return_connection.  s.pool is the number of pooled connections, s.tls
\* tells whether CLIENT_CONFIG holds a configuration, s.held the guards
\* alive, in the order they were taken.
post_step(s, outcome) ==
    CASE s.pc = "idle" ->
           \* post: get_next_url, Url::parse
           IF outcome = "invalid_url" THEN return_from_post(s, "InvalidUrl")
           ELSE [s EXCEPT !.pc = "get_connection", !.result = "none"]
      [] s.pc = "get_connection" ->
           lock(s, POOL_LOCK, "retain")
      [] s.pc = "retain" ->
           [s EXCEPT !.pc = "pop_front",
                     !.pool = IF outcome = "expired" THEN 0 ELSE @]
      [] s.pc = "pop_front" ->
           IF s.pool > 0
           THEN [s EXCEPT !.pool = @ - 1, !.stream = "pooled",
                          !.held = drop_guard(@, POOL_LOCK),
                          !.pc = "send_non_blocking"]
           ELSE [s EXCEPT !.pc = "connect"]
      [] s.pc = "connect" ->
           \* TcpStream::connect, set_nonblocking, ServerName::try_from
           IF outcome = "ok" THEN [s EXCEPT !.pc = "get_client_config"]
           ELSE [return_from_post(s, IF outcome = "refused" THEN "Io"
                                     ELSE "InvalidHostname")
                    EXCEPT !.held = drop_guard(@, POOL_LOCK)]
      [] s.pc = "get_client_config" ->
           lock(s, TLS_LOCK, "config_guard")
      [] s.pc = "config_guard" ->
           [s EXCEPT !.tls = TRUE, !.held = drop_guard(@, TLS_LOCK),
                     !.pc = "ClientConnection_new"]
      [] s.pc = "ClientConnection_new" ->
           IF outcome = "ok"
           THEN [s EXCEPT !.stream = "new", !.held = drop_guard(@, POOL_LOCK),
                          !.pc = "send_non_blocking"]
           ELSE [return_from_post(s, "Tls") EXCEPT !.held = drop_guard(@, POOL_LOCK)]
      [] s.pc = "send_non_blocking" ->
           IF outcome = "ok" THEN [s EXCEPT !.pc = "return_connection"]
           ELSE return_from_post(s, IF outcome = "timeout" THEN "Timeout" ELSE "Io")
      [] s.pc = "return_connection" ->
           lock(s, POOL_LOCK, "push_back")
      [] s.pc = "push_back" ->
           [return_from_post(s, "Ok")
               EXCEPT !.pool = IF @ < MAX_POOL_SIZE THEN @ + 1 ELSE @,
                      !.held = drop_guard(@, POOL_LOCK)]
      [] OTHER -> s

InitLocks ==
    /\ GuestAtRest /\ HostAtRest /\ ObsAtRest
    /\ arg = WasiHttpClient_new(DEFAULT_TREBLLE_API_URLS)
    /\ res = [pc |-> "idle", held |-> <<>>, pool |-> 0, tls |-> FALSE,
              stream |-> "none", result |-> "none", calls |-> 0]

PostStep ==
    /\ res.pc # "deadlock"
    /\ res.pc = "idle" => res.calls < MaxCalls
    /\ \E outcome \in OutcomesAt(res.pc) : res' = post_step(res, outcome)
    /\ UNCHANGED <<guestVars, hostVars, obsVars, arg>>

SpecLocks == InitLocks /\ [][PostStep]_vars

\* the statements that read or change the pool
PoolAccess == { "retain", "pop_front", "push_back" }

\* C39: the pool is touched only under its mutex; a thread never locks a
\* mutex it holds; the pool guard of get_connection is gone when the
\* request is written and when return_connection locks the pool again; the
\* TLS-config mutex is locked only while the pool guard is held; and no
\* guard is alive when post has returned, with Ok or with an error.
C39_LockDiscipline ==
    /\ res.pc # "deadlock"
    /\ res.pc \in PoolAccess => res.held = << POOL_LOCK >>
    /\ res.pc \in { "send_non_blocking", "return_connection", "idle" }
          => res.held = <<>>
    /\ res.pc = "get_client_config" => res.held = << POOL_LOCK >>
    /\ res.held \in { <<>>, << POOL_LOCK >>, << POOL_LOCK, TLS_LOCK >> }

\* a post opened a connection, built the TLS configuration under both
\* locks and pooled the stream; the next post took it from the pool and
\* failed on the write
C39_Witness ==
    /\ res.pc = "idle"
    /\ res.calls = 2
    /\ res.tls
    /\ res.result = "Timeout"
    /\ res.pool = 0
    /\ res.held = <<>>


RECURSIVE ShapeKept(_, _)
\* the output has the input's key sets and array lengths at every position
\* that is not below a sensitive key, and a scalar stays a scalar of its kind
ShapeKept(in, out) ==
    IF in.t = "object"
    THEN /\ out.t = "object"
         /\ DOMAIN out.v = DOMAIN in.v
         /\ \A key \in DOMAIN in.v :
               ~Sensitive(key) => ShapeKept(in.v[key], out.v[key])
    ELSE IF in.t = "array"
    THEN /\ out.t = "array"
         /\ Len(out.v) = Len(in.v)
         /\ \A i \in 1..Len(in.v) : ShapeKept(in.v[i], out.v[i])
    ELSE out.t = in.t

=============================================================================
